---- MODULE Spec2Model ----
(***************************************************************************)
(* A model of the spacetrader-agent decision engine.                       *)
(*                                                                         *)
(*  - the controller loop of agent.py (SpaceTradersAgent.run and its       *)
(*    dispatch table of state handlers);                                   *)
(*  - the state classes of states/*.py, which act on the shared            *)
(*    AgentContext of models/agent_data.py;                                *)
(*  - the pure queries of models/contract.py.                              *)
(*                                                                         *)
(* agent.py dispatches its own handler methods; the state classes are      *)
(* invoked through BaseState.execute by whoever holds an AgentContext.     *)
(* The two are therefore modelled as two families of actions over disjoint *)
(* variables, each with its own specification (SpecCtl, Spec); SpecScore   *)
(* calls the scoring method of a contract on its own.                      *)
(***************************************************************************)
EXTENDS Integers, Sequences, FiniteSets, TLC

VARIABLES
    \* ---- SpaceTradersAgent (agent.py) ----
    current_state,        \* self.current_state
    running,              \* self.running
    errors_encountered,   \* self.performance_metrics['errors_encountered']
    contracts_completed,  \* self.performance_metrics['contracts_completed']
    pc,                   \* position of run(): "top", "handler", "pause", "done"
    outcome,              \* history: how the last dispatched handler ended
    dispatched,           \* history: the state whose handler was last dispatched
    \* ---- AgentContext (models/agent_data.py) and its environment ----
    agent_data,           \* context.agent_data: <<>> (None) or <<AgentData>>
    current_contract,     \* context.current_contract: <<>> (None) or <<Contract>>
    ships,                \* context.ships: sequence of Ship
    strategy_config,      \* context.strategy_config
    now,                  \* the wall clock read by datetime.now() / time.time()
    call,                 \* history: the last BaseState.execute() call
    query,                \* a direct call of a Contract method and its result
    failed_acquire_at     \* history: the clock values at the latest call of
                          \* AcquireResourcesState that acquired no ship
                          \* (any) and at the latest one that found no
                          \* shipyard with a ship in stock (no_stock),
                          \* each <<>> when there was none

ctlvars == <<current_state, running, errors_encountered, contracts_completed,
             pc, outcome, dispatched>>

ctxvars == <<agent_data, current_contract, ships, strategy_config, now, call,
             query, failed_acquire_at>>

vars == <<current_state, running, errors_encountered, contracts_completed,
          pc, outcome, dispatched,
          agent_data, current_contract, ships, strategy_config, now, call,
          query, failed_acquire_at>>

----------------------------------------------------------------------------
\* Bounds of the model (not program constants).

MaxErrors == 2
MaxCompleted == 2
MaxContracts == 2      \* contracts in one get_my_contracts response
MaxTicks == 2          \* clock advances of TickSeconds
MaxUnits == 2          \* units of a delivery read directly: -1..MaxUnits
MaxShips == 2          \* ships owned when an acquisition starts: fewer
TickSeconds == 3600    \* seconds per clock advance
Epoch0 == 1000000      \* the clock when the context is constructed

----------------------------------------------------------------------------
\* AgentState (agent.py:16-28, models/state_enums.py:8-20)

AgentState ==
    {"INITIALIZE", "ASSESS_SITUATION", "NEGOTIATE_CONTRACT", "ACCEPT_CONTRACT",
     "PLAN_FULFILLMENT", "ACQUIRE_RESOURCES", "EXECUTE_CONTRACT", "DELIVER_GOODS",
     "COMPLETE_CONTRACT", "EVALUATE_PERFORMANCE", "ERROR_RECOVERY"}

\* The handler methods of SpaceTradersAgent: the state each one returns.
state_initialize == "ASSESS_SITUATION"
state_assess_situation == "NEGOTIATE_CONTRACT"
state_negotiate_contract == "ACCEPT_CONTRACT"
state_accept_contract == "PLAN_FULFILLMENT"
state_plan_fulfillment == "EXECUTE_CONTRACT"
state_acquire_resources == "EXECUTE_CONTRACT"
state_execute_contract == "DELIVER_GOODS"
state_deliver_goods == "COMPLETE_CONTRACT"
state_complete_contract == "EVALUATE_PERFORMANCE"
state_evaluate_performance == "ASSESS_SITUATION"

state_error_recovery_wrong == "ERROR_RECOVERY"

state_error_recovery == "ASSESS_SITUATION"

\* execute_current_state: the dispatch table; a state without a handler
\* yields ERROR_RECOVERY.
state_handlers ==
    [INITIALIZE |-> state_initialize,
     ASSESS_SITUATION |-> state_assess_situation,
     NEGOTIATE_CONTRACT |-> state_negotiate_contract,
     ACCEPT_CONTRACT |-> state_accept_contract,
     PLAN_FULFILLMENT |-> state_plan_fulfillment,
     ACQUIRE_RESOURCES |-> state_acquire_resources,
     EXECUTE_CONTRACT |-> state_execute_contract,
     DELIVER_GOODS |-> state_deliver_goods,
     COMPLETE_CONTRACT |-> state_complete_contract,
     EVALUATE_PERFORMANCE |-> state_evaluate_performance,
     ERROR_RECOVERY |-> state_error_recovery]

execute_current_state(s) ==
    IF s \in DOMAIN state_handlers THEN state_handlers[s] ELSE "ERROR_RECOVERY"

\* state_complete_contract is the only handler of agent.py with a side
\* effect on the agent: it counts the completed contract.
CompletedAfter(s, n) == IF s = "COMPLETE_CONTRACT" THEN n + 1 ELSE n

----------------------------------------------------------------------------
\* SpaceTradersAgent.__init__

CtlInit ==
    /\ current_state = "INITIALIZE"
    /\ running = TRUE
    /\ errors_encountered = 0
    /\ contracts_completed = 0
    /\ pc = "top"
    /\ outcome = "none"
    /\ dispatched = "none"

\* run(): `while self.running:`
LoopTop ==
    /\ pc = "top"
    /\ pc' = IF running THEN "handler" ELSE "done"
    /\ UNCHANGED <<current_state, running, errors_encountered,
                   contracts_completed, outcome, dispatched>>
    /\ UNCHANGED ctxvars

\* run(): the handler returned; the transition is applied when the returned
\* state differs from the current one.
RunHandlerReturned ==
    LET next_state == execute_current_state(current_state) IN
    /\ contracts_completed' = CompletedAfter(current_state, contracts_completed)
    /\ current_state' = IF next_state # current_state THEN next_state
                        ELSE current_state
    /\ pc' = "pause"
    /\ outcome' = "returned"
    /\ dispatched' = current_state
    /\ UNCHANGED <<running, errors_encountered>>

HandlerReturn ==
    /\ pc = "handler"
    /\ CompletedAfter(current_state, contracts_completed) <= MaxCompleted
    /\ RunHandlerReturned
    /\ UNCHANGED ctxvars

\* A variant of the except branch that lets the exception end the loop.
RunExceptExceptionReraise ==
    /\ errors_encountered' = errors_encountered + 1
    /\ current_state' = "ERROR_RECOVERY"
    /\ pc' = "done"
    /\ outcome' = "raised"
    /\ dispatched' = current_state
    /\ UNCHANGED <<running, contracts_completed>>

\* run(): `except Exception` -- count the error, force ERROR_RECOVERY, and
\* fall through to the loop test (the pause is inside the try and skipped).
RunExceptException ==
    /\ errors_encountered' = errors_encountered + 1
    /\ current_state' = "ERROR_RECOVERY"
    /\ pc' = "top"
    /\ outcome' = "raised"
    /\ dispatched' = current_state
    /\ UNCHANGED <<running, contracts_completed>>

\* The dispatched handler raises an Exception (a fault injected by the
\* environment: no handler of agent.py raises by itself).
HandlerRaise ==
    /\ pc = "handler"
    /\ errors_encountered < MaxErrors
    /\ RunExceptException
    /\ UNCHANGED ctxvars

\* run(): `time.sleep(1)` completes.
Pause ==
    /\ pc = "pause"
    /\ pc' = "top"
    /\ UNCHANGED <<current_state, running, errors_encountered,
                   contracts_completed, outcome, dispatched>>
    /\ UNCHANGED ctxvars

\* run(): `except KeyboardInterrupt` -- shutdown() clears running, then break.
\* The interrupt is delivered while the handler runs or during the pause.
KeyboardInterrupt ==
    /\ pc \in {"handler", "pause"}
    /\ running' = FALSE
    /\ pc' = "done"
    /\ outcome' = IF pc = "handler" THEN "interrupted" ELSE outcome
    /\ dispatched' = IF pc = "handler" THEN current_state ELSE dispatched
    /\ UNCHANGED <<current_state, errors_encountered, contracts_completed>>
    /\ UNCHANGED ctxvars

CtlNext == LoopTop \/ HandlerReturn \/ HandlerRaise \/ Pause \/ KeyboardInterrupt

----------------------------------------------------------------------------
\* Program constants.

SafetyCreditReserve == 10000     \* strategy_config['safety_credit_reserve']
FleetExpansionCredits == 50000   \* credits needed before buying a ship
AcquireCooldown == 3600          \* seconds between acquisition attempts
StrategyMaxShips == 5            \* strategy_config['max_ships']
GoodsCostPerUnit == 100          \* _estimate_contract_cost
SecondsPerDay == 86400           \* calculate_profitability_score

----------------------------------------------------------------------------
\* Small helpers.

None == <<>>
Some(x) == <<x>>

Max2(a, b) == IF a >= b THEN a ELSE b
Abs(a) == IF a < 0 THEN 0 - a ELSE a

RECURSIVE Gcd(_, _)
Gcd(a, b) == IF b = 0 THEN a ELSE Gcd(b, a % b)

\* Exact rationals [num, den] with den > 0, in lowest terms.  The program
\* computes the score in binary floating point; the model keeps the exact
\* value of the same expression.
Rat(n, d) ==
    LET g == Gcd(Abs(n), d) IN
    IF g = 0 THEN [num |-> 0, den |-> 1] ELSE [num |-> n \div g, den |-> d \div g]

RatInt(n) == [num |-> n, den |-> 1]

RatMul(a, b) ==
    LET g1 == Max2(1, Gcd(Abs(a.num), b.den))
        g2 == Max2(1, Gcd(Abs(b.num), a.den))
    IN Rat((a.num \div g1) * (b.num \div g2), (a.den \div g2) * (b.den \div g1))

RatLess(a, b) == a.num * b.den < b.num * a.den
RatLeq(a, b) == a.num * b.den <= b.num * a.den

----------------------------------------------------------------------------
\* datetime values.  A datetime is an instant t (seconds on the model's
\* clock) that is either timezone-naive or timezone-aware.  Python refuses
\* to compare or subtract a naive and an aware datetime (TypeError).

Naive(t) == [t |-> t, tz |-> "naive"]
Aware(t) == [t |-> t, tz |-> "aware"]

\* An ISO timestamp of a payload: its instant, and whether the text ends in
\* 'Z' or another UTC offset (the SpaceTraders API always sends 'Z').
IsoText(t, z) == [t |-> t, z |-> z]

\* datetime.fromisoformat(text.replace('Z', '+00:00')): a text that carries
\* an offset parses to an aware datetime, one without to a naive datetime.
ParseDatetime(text) == IF text.z THEN Aware(text.t) ELSE Naive(text.t)

----------------------------------------------------------------------------
\* models/contract.py

\* ContractDelivery.from_api_response
ContractDelivery_from_api_response(d) ==
    [units_required |-> d.unitsRequired, units_fulfilled |-> d.unitsFulfilled]

\* A variant that takes a delivery for completed only when the units
\* delivered equal the units required.
is_completed_exact(d) == d.units_fulfilled = d.units_required

\* ContractDelivery.is_completed
is_completed(d) == d.units_fulfilled >= d.units_required

\* ContractDelivery.remaining_units
remaining_units(d) == Max2(0, d.units_required - d.units_fulfilled)

\* Contract.from_api_response with ContractTerms.from_api_response: an empty
\* deadline text becomes datetime.now(), a missing expiration stays None.
Contract_from_api_response(data, clock) ==
    [contract_id |-> data.id,
     accepted |-> data.accepted,
     fulfilled |-> data.fulfilled,
     expiration |-> IF data.expiration = None THEN None
                    ELSE Some(ParseDatetime(data.expiration[1])),
     deadline |-> IF data.deadline = None THEN Naive(clock)
                  ELSE ParseDatetime(data.deadline[1]),
     payment_on_accepted |-> data.onAccepted,
     payment_on_fulfilled |-> data.onFulfilled,
     contract_type |-> "PROCUREMENT",
     deliveries |-> [i \in 1..Len(data.deliver) |->
                        ContractDelivery_from_api_response(data.deliver[i])]]

\* ContractTerms.from_api_response: datetime.fromisoformat raises ValueError
\* on a deadline text that is no ISO timestamp.
from_api_response_raises(data) ==
    data.deadline # None /\ "garbled" \in DOMAIN data.deadline[1]

ParseContracts(datas, clock) ==
    [i \in 1..Len(datas) |-> Contract_from_api_response(datas[i], clock)]

\* ContractTerms.total_payment
total_payment(c) == c.payment_on_accepted + c.payment_on_fulfilled

RECURSIVE SumUnitsRequired(_)
SumUnitsRequired(ds) ==
    IF ds = <<>> THEN 0 ELSE ds[1].units_required + SumUnitsRequired(Tail(ds))

RECURSIVE SumRemainingUnits(_)
SumRemainingUnits(ds) ==
    IF ds = <<>> THEN 0 ELSE remaining_units(ds[1]) + SumRemainingUnits(Tail(ds))

RECURSIVE MaxUnitsRequired(_)
MaxUnitsRequired(ds) ==
    IF ds = <<>> THEN 0
    ELSE IF Len(ds) = 1 THEN ds[1].units_required
    ELSE Max2(ds[1].units_required, MaxUnitsRequired(Tail(ds)))

\* Contract.is_expired / ContractTerms.is_expired compare the naive
\* datetime.now() with the expiration (when there is one) or the deadline.
\* ExpiryInstant is the datetime they compare with.
ExpiryInstant(c) == IF c.expiration # None THEN c.expiration[1] ELSE c.deadline

\* The comparison raises TypeError when that datetime is timezone-aware.
is_expired_raises(c) == ExpiryInstant(c).tz = "aware"

is_expired(c, clock) == clock > ExpiryInstant(c).t

\* Contract.status raises when it gets as far as is_expired and that raises.
status_raises(c) == ~c.fulfilled /\ ~c.accepted /\ is_expired_raises(c)

\* Contract.status
status(c, clock) ==
    IF c.fulfilled THEN "FULFILLED"
    ELSE IF c.accepted THEN "ACCEPTED"
    ELSE IF is_expired(c, clock) THEN "FAILED"
    ELSE "AVAILABLE"

\* Contract.all_deliveries_completed
all_deliveries_completed(c) ==
    \A i \in 1..Len(c.deliveries) : is_completed(c.deliveries[i])

\* Contract.calculate_profitability_score raises TypeError when is_expired
\* does, or when it reaches `self.terms.deadline - datetime.now()` with a
\* timezone-aware deadline.
score_raises(c, cargo_capacity, estimated_costs, clock) ==
    \/ is_expired_raises(c)
    \/ /\ ~is_expired(c, clock)
       /\ SumRemainingUnits(c.deliveries) <= cargo_capacity
       /\ total_payment(c) - estimated_costs > 0
       /\ c.deadline.tz = "aware"

\* min(1.0, time_remaining / 86400)
time_factor(c, clock) ==
    LET time_remaining == c.deadline.t - clock IN
    IF time_remaining >= SecondsPerDay THEN RatInt(1)
    ELSE Rat(time_remaining, SecondsPerDay)

\* The score of a profitable contract.
ProfitScore(profit, total_units_needed, payment, factor) ==
    RatMul(RatMul(RatMul(Rat(profit, Max2(1, total_units_needed)),
                         Rat(profit, Max2(1, payment))),
                  factor),
           RatInt(100))

calculate_profitability_score(c, cargo_capacity, estimated_costs, clock) ==
    LET total_units_needed == SumRemainingUnits(c.deliveries)
        profit == total_payment(c) - estimated_costs
    IN  IF is_expired(c, clock) THEN RatInt(-1000)
        ELSE IF total_units_needed > cargo_capacity THEN RatInt(-500)
        ELSE IF profit <= 0 THEN RatInt(-100)
        ELSE ProfitScore(profit, total_units_needed, total_payment(c),
                         time_factor(c, clock))

----------------------------------------------------------------------------
\* models/ship.py and models/agent_data.py

\* Ship.from_api_response (the fields the decision engine reads)
Ship_from_api_response(d) ==
    [symbol |-> d.symbol,
     cargo_capacity |-> d.cargo.capacity,
     waypoint_symbol |-> d.nav.waypointSymbol,
     status |-> d.nav.status,
     fuel_current |-> d.fuel.current,
     fuel_capacity |-> d.fuel.capacity]

ParseShips(datas) == [i \in 1..Len(datas) |-> Ship_from_api_response(datas[i])]

\* AgentData.from_api_response
AgentData_from_api_response(d) ==
    [credits |-> d.credits, headquarters |-> d.headquarters]

\* AgentContext.update_agent_data: replaced only when the response has 'data'.
update_agent_data(old, response) ==
    IF response.has_data THEN Some(AgentData_from_api_response(response.data))
    ELSE old

\* AgentContext.get_total_cargo_capacity
RECURSIVE get_total_cargo_capacity(_)
get_total_cargo_capacity(fleet) ==
    IF fleet = <<>> THEN 0
    ELSE fleet[1].cargo_capacity + get_total_cargo_capacity(Tail(fleet))

RECURSIVE LargestShipCapacity(_)
LargestShipCapacity(fleet) ==
    IF fleet = <<>> THEN 0
    ELSE Max2(fleet[1].cargo_capacity, LargestShipCapacity(Tail(fleet)))

\* AgentContext.has_sufficient_credits
has_sufficient_credits(agent, config, amount) ==
    IF agent = None THEN FALSE
    ELSE agent[1].credits - config.safety_credit_reserve >= amount

\* AgentContext.__post_init__: the default strategy configuration, with the
\* keys the state classes read through .get(key, default) at their defaults.
DefaultStrategyConfig ==
    [safety_credit_reserve |-> SafetyCreditReserve,
     max_ships |-> StrategyMaxShips,
     acquire_failed |-> FALSE,
     last_acquire_attempt |-> 0,
     successful_contract_types |-> {}]

----------------------------------------------------------------------------
\* The record kept of one BaseState.execute() call (history only).
\*   op        the state class
\*   ret       the AgentState returned
\*   raised    where the exception caught by execute() came from, or "none"
\*   slept     seconds of time.sleep() inside the call
\*   fetched   the contracts parsed from get_my_contracts
\*   available the contracts kept by _get_available_contracts
\*   suitable  the contracts kept by _filter_contracts_by_capabilities
\*   scored    <<contract, score>> pairs in the order _select_best_contract
\*             leaves them after its sort
\*   selected  the contract _select_best_contract returned, or None
\*   issued    the API calls that change the game state (accept_contract,
\*             orbit_ship, navigate_ship, purchase_ship, refuel_ship) and
\*             the get_my_ships of _refresh_ship_data, in the order the
\*             handler issued them
\*   response  the response such a call got, or None
\*   detail    what AcquireResourcesState worked out on the way (its need
\*             analysis, the pages and shipyard inventories the API
\*             holds, what the pagination loop requested and gathered,
\*             the shipyards found, the
\*             offering chosen, the refuel_ship calls that raised and what
\*             get_my_ships answered), or None
Call(op, ret, raised, slept, fetched, available, suitable, scored, selected) ==
    [op |-> op, ret |-> ret, raised |-> raised, slept |-> slept,
     fetched |-> fetched, available |-> available, suitable |-> suitable,
     scored |-> scored, selected |-> selected,
     issued |-> <<>>, response |-> None, detail |-> None]

NoCall == Call("none", "none", "none", 0, <<>>, <<>>, <<>>, <<>>, None)

\* A variant of the except clause of execute() that lets the exception go on
\* to the caller: the call yields no state.
execute_except_reraise == "raise"

\* execute() of every state class: `except Exception as e:` logs the error
\* and returns AgentState.ERROR_RECOVERY.
execute_except == "ERROR_RECOVERY"

----------------------------------------------------------------------------
\* states/assess_situation.py

\* _update_contracts: the active contracts, `accepted and not fulfilled and
\* not is_expired` (is_expired is evaluated only when the first two hold).
ActiveTestRaises(c) == c.accepted /\ ~c.fulfilled /\ is_expired_raises(c)

ActiveContracts(contracts, clock) ==
    LET Test(c) == c.accepted /\ ~c.fulfilled /\ ~is_expired(c, clock)
    IN SelectSeq(contracts, Test)

\* _update_contracts: the logged available contracts, `not accepted and not
\* is_expired`.
LoggedAvailableTestRaises(c) == ~c.accepted /\ is_expired_raises(c)

\* _update_contracts: `current_contract = active_contracts[0]`, else None.
AdoptActive(active) == IF active # <<>> THEN Some(active[1]) ELSE None

\* A variant that lets an active contract take priority over the empty fleet.
DetermineContractFirst(fleet, contract) ==
    IF contract # None THEN
        IF all_deliveries_completed(contract[1]) THEN "COMPLETE_CONTRACT"
        ELSE "EXECUTE_CONTRACT"
    ELSE IF fleet = <<>> THEN "ERROR_RECOVERY"
    ELSE "NEGOTIATE_CONTRACT"

\* _determine_next_action
_determine_next_action(fleet, contract) ==
    IF fleet = <<>> THEN "ERROR_RECOVERY"
    ELSE IF contract # None THEN
        IF all_deliveries_completed(contract[1]) THEN "COMPLETE_CONTRACT"
        ELSE "EXECUTE_CONTRACT"
    ELSE "NEGOTIATE_CONTRACT"

\* AssessSituationState.execute: the context and the call record it leaves,
\* given the three responses (each may raise after the client's retries).
AssessResult(agent_resp, ships_resp, contracts_resp) ==
    LET agent1 == update_agent_data(agent_data, agent_resp)
        ships1 == ParseShips(ships_resp.data)
        contracts == ParseContracts(contracts_resp.data, now)
        active == ActiveContracts(contracts, now)
        contract1 == AdoptActive(active)
        Failed(where, a, s, c, fetched) ==
            [agent |-> a, fleet |-> s, contract |-> c,
             call |-> Call("ASSESS_SITUATION", execute_except, where, 0,
                           fetched, <<>>, <<>>, <<>>, None)]
    IN  IF agent_resp.raises THEN
            Failed("get_my_agent", agent_data, ships, current_contract, <<>>)
        ELSE IF ships_resp.raises THEN
            Failed("get_my_ships", agent1, ships, current_contract, <<>>)
        ELSE IF contracts_resp.raises THEN
            Failed("get_my_contracts", agent1, ships1, current_contract, <<>>)
        ELSE IF (\E i \in 1..Len(contracts_resp.data) :
                    from_api_response_raises(contracts_resp.data[i])) THEN
            Failed("from_api_response", agent1, ships1, current_contract, <<>>)
        ELSE IF (\E i \in 1..Len(contracts) : ActiveTestRaises(contracts[i])) THEN
            Failed("is_expired", agent1, ships1, current_contract, contracts)
        ELSE IF (\E i \in 1..Len(contracts) : LoggedAvailableTestRaises(contracts[i])) THEN
            Failed("is_expired", agent1, ships1, contract1, contracts)
        ELSE
            [agent |-> agent1, fleet |-> ships1, contract |-> contract1,
             call |-> Call("ASSESS_SITUATION",
                           _determine_next_action(ships1, contract1),
                           "none", 0, contracts, <<>>, <<>>, <<>>, None)]

----------------------------------------------------------------------------
\* states/negotiate_contract.py

\* _get_available_contracts: `not accepted and not fulfilled and not
\* is_expired`.
AvailableTestRaises(c) == ~c.accepted /\ ~c.fulfilled /\ is_expired_raises(c)

_get_available_contracts(contracts, clock) ==
    LET Test(c) == ~c.accepted /\ ~c.fulfilled /\ ~is_expired(c, clock)
    IN SelectSeq(contracts, Test)

\* _estimate_contract_cost: 100 credits per unit plus int(0.1 * payment).
_estimate_contract_cost(c) ==
    SumUnitsRequired(c.deliveries) * GoodsCostPerUnit + (total_payment(c) \div 10)

\* A variant of the capability test that also rejects a contract whose
\* largest delivery does not fit the largest ship.
KeepsContractStrict(c, fleet, agent, config) ==
    /\ SumUnitsRequired(c.deliveries) <= get_total_cargo_capacity(fleet)
    /\ has_sufficient_credits(agent, config, _estimate_contract_cost(c))
    /\ MaxUnitsRequired(c.deliveries) <= LargestShipCapacity(fleet)

\* The loop body of _filter_contracts_by_capabilities: the three tests that
\* `continue` past a contract.
KeepsContract(c, fleet, agent, config) ==
    LET total_cargo_capacity == get_total_cargo_capacity(fleet)
        total_units_needed == SumUnitsRequired(c.deliveries)
        max_delivery_size == MaxUnitsRequired(c.deliveries)
        largest_ship_capacity == LargestShipCapacity(fleet)
    IN  IF total_units_needed > total_cargo_capacity THEN FALSE
        ELSE IF ~has_sufficient_credits(agent, config, _estimate_contract_cost(c))
             THEN FALSE
        ELSE IF /\ max_delivery_size > largest_ship_capacity
                /\ total_units_needed > total_cargo_capacity THEN FALSE
        ELSE TRUE

\* _filter_contracts_by_capabilities
_filter_contracts_by_capabilities(contracts, fleet, agent, config) ==
    LET Test(c) == KeepsContract(c, fleet, agent, config) IN
    IF fleet = <<>> THEN <<>> ELSE SelectSeq(contracts, Test)

\* A variant of the cooldown test that lets every attempt through.
CooldownOverAlways(config, clock) == TRUE

\* _analyze_filtering_reasons: `not acquire_failed or (time.time() -
\* last_attempt) > 3600`
CooldownOver(config, clock) ==
    \/ ~config.acquire_failed
    \/ clock - config.last_acquire_attempt > AcquireCooldown

\* _analyze_filtering_reasons
_analyze_filtering_reasons(contracts, fleet, agent, config, clock) ==
    LET total_cargo_capacity == get_total_cargo_capacity(fleet)
        CapacityIssue(c) == SumUnitsRequired(c.deliveries) > total_cargo_capacity
        ShipSizeIssue(c) ==
            /\ MaxUnitsRequired(c.deliveries) > LargestShipCapacity(fleet)
            /\ SumUnitsRequired(c.deliveries) > total_cargo_capacity
        capacity_issues == Cardinality({i \in 1..Len(contracts) : CapacityIssue(contracts[i])})
        ship_size_issues == Cardinality({i \in 1..Len(contracts) : ShipSizeIssue(contracts[i])})
    IN  IF contracts = <<>> THEN "NEGOTIATE_CONTRACT"
        ELSE IF /\ (capacity_issues > 0 \/ ship_size_issues > 0)
                /\ agent # None
                /\ agent[1].credits > FleetExpansionCredits
                /\ CooldownOver(config, clock)
             THEN "ACQUIRE_RESOURCES"
        ELSE "NEGOTIATE_CONTRACT"

\* _select_best_contract: the <<contract, score>> pairs in evaluation order.
ScoreContracts(contracts, fleet, clock) ==
    [i \in 1..Len(contracts) |->
        [contract |-> contracts[i],
         score |-> calculate_profitability_score(
                       contracts[i], get_total_cargo_capacity(fleet),
                       _estimate_contract_cost(contracts[i]), clock)]]

ScoringRaises(contracts, fleet, clock) ==
    \E i \in 1..Len(contracts) :
        score_raises(contracts[i], get_total_cargo_capacity(fleet),
                     _estimate_contract_cost(contracts[i]), clock)

\* A variant of the insertion that puts a pair before its equals.
InsertBeforeEquals(sorted, x) ==
    LET before == {i \in 1..Len(sorted) : RatLess(x.score, sorted[i].score)}
        k == Cardinality(before)
    IN SubSeq(sorted, 1, k) \o <<x>> \o SubSeq(sorted, k + 1, Len(sorted))

\* list.sort(key=score, reverse=True) is stable: a pair goes after every
\* pair whose score is greater than or equal to its own.
InsertByScore(sorted, x) ==
    LET before == {i \in 1..Len(sorted) : RatLeq(x.score, sorted[i].score)}
        k == Cardinality(before)
    IN SubSeq(sorted, 1, k) \o <<x>> \o SubSeq(sorted, k + 1, Len(sorted))

RECURSIVE SortByScoreDescending(_)
SortByScoreDescending(pairs) ==
    IF pairs = <<>> THEN <<>>
    ELSE InsertByScore(SortByScoreDescending(SubSeq(pairs, 1, Len(pairs) - 1)),
                       pairs[Len(pairs)])

\* _select_best_contract: the head of the sorted list if its score is > 0.
BestOf(scored) ==
    IF scored # <<>> /\ RatLess(RatInt(0), scored[1].score)
    THEN Some(scored[1].contract) ELSE None

\* _log_contract_details subtracts the aware datetime.now(timezone.utc) from
\* the deadline: TypeError when the deadline is timezone-naive.
NegotiateLogRaises(c) == c.deadline.tz = "naive"

\* NegotiateContractState.execute: the contract it leaves in the context and
\* the call record, given the get_my_contracts response.
NegotiateResult(contracts_resp) ==
    LET contracts == ParseContracts(contracts_resp.data, now)
        available == _get_available_contracts(contracts, now)
        suitable == _filter_contracts_by_capabilities(
                        available, ships, agent_data, strategy_config)
        scored == SortByScoreDescending(ScoreContracts(suitable, ships, now))
        best == BestOf(scored)
        Out(contract, ret, raised, slept, f, a, s, sc, sel) ==
            [contract |-> contract,
             call |-> Call("NEGOTIATE_CONTRACT", ret, raised, slept,
                           f, a, s, sc, sel)]
    IN  IF contracts_resp.raises THEN
            Out(current_contract, execute_except, "get_my_contracts", 0,
                <<>>, <<>>, <<>>, <<>>, None)
        ELSE IF (\E i \in 1..Len(contracts_resp.data) :
                    from_api_response_raises(contracts_resp.data[i])) THEN
            Out(current_contract, execute_except, "from_api_response", 0,
                <<>>, <<>>, <<>>, <<>>, None)
        ELSE IF (\E i \in 1..Len(contracts) : AvailableTestRaises(contracts[i])) THEN
            Out(current_contract, execute_except, "is_expired", 0,
                contracts, <<>>, <<>>, <<>>, None)
        ELSE IF available = <<>> THEN
            Out(current_contract, "NEGOTIATE_CONTRACT", "none", 10,
                contracts, available, <<>>, <<>>, None)
        ELSE IF suitable = <<>> THEN
            IF _analyze_filtering_reasons(available, ships, agent_data,
                                          strategy_config, now)
               = "ACQUIRE_RESOURCES"
            THEN Out(current_contract, "ACQUIRE_RESOURCES", "none", 0,
                     contracts, available, suitable, <<>>, None)
            ELSE Out(current_contract, "NEGOTIATE_CONTRACT", "none", 30,
                     contracts, available, suitable, <<>>, None)
        ELSE IF ScoringRaises(suitable, ships, now) THEN
            Out(current_contract, execute_except, "score", 0,
                contracts, available, suitable, <<>>, None)
        ELSE IF best = None THEN
            Out(current_contract, "NEGOTIATE_CONTRACT", "none", 10,
                contracts, available, suitable, scored, None)
        ELSE IF NegotiateLogRaises(best[1]) THEN
            Out(best, execute_except, "log_details", 0,
                contracts, available, suitable, scored, best)
        ELSE
            Out(best, "ACCEPT_CONTRACT", "none", 0,
                contracts, available, suitable, scored, best)

----------------------------------------------------------------------------
\* states/accept_contract.py

\* _log_acceptance_details subtracts the aware datetime.now(timezone.utc)
\* from the deadline: TypeError when the deadline is timezone-naive.
AcceptLogRaises(c) == c.deadline.tz = "naive"

\* A variant that reports success for every well-formed response, whatever
\* the accepted flag of the contract in it.
_accept_contract_any(c, agent, resp) ==
    IF resp.raises \/ ~resp.has_data \/ ~resp.has_contract \/ ~resp.has_agent
    THEN [contract |-> c, agent |-> agent, success |-> FALSE]
    ELSE [contract |-> [c EXCEPT !.accepted = resp.contract.accepted,
                                 !.fulfilled = resp.contract.fulfilled],
          agent |-> Some(AgentData_from_api_response(resp.agent)),
          success |-> TRUE]

\* _accept_contract: the contract and agent data it leaves and the bool it
\* returns.  A raised call, a response without 'data' and a KeyError on
\* data['contract'] or data['agent'] all return False before any update.
_accept_contract(c, agent, resp) ==
    IF resp.raises \/ ~resp.has_data \/ ~resp.has_contract \/ ~resp.has_agent
    THEN [contract |-> c, agent |-> agent, success |-> FALSE]
    ELSE [contract |-> [c EXCEPT !.accepted = resp.contract.accepted,
                                 !.fulfilled = resp.contract.fulfilled],
          agent |-> Some(AgentData_from_api_response(resp.agent)),
          success |-> resp.contract.accepted]

\* _record_contract_acceptance
_record_contract_acceptance(config, c) ==
    [config EXCEPT !.successful_contract_types = @ \cup {c.contract_type}]

\* A variant that never takes a contract for accepted already.
AlreadyAcceptedNever(c) == FALSE

\* execute: `if contract.accepted:`, the contract needs no accept call.
AlreadyAccepted(c) == c.accepted

\* A variant that leaves the contract whose acceptance failed in the context.
KeepFailedContract(c) == Some(c)

\* execute: `self.context.current_contract = None` after a failed acceptance.
ClearFailedContract(c) == None

\* AcceptContractState.execute: the context and the call record it leaves,
\* given the accept_contract response.
AcceptResult(resp) ==
    LET r == _accept_contract(current_contract[1], agent_data, resp)
        accepted1 == [r.contract EXCEPT !.accepted = TRUE]
        Record(ret, raised, issued, response) ==
            [Call("ACCEPT_CONTRACT", ret, raised, 0,
                  <<>>, <<>>, <<>>, <<>>, None)
                EXCEPT !.issued = issued, !.response = response]
        Out(contract, agent, config, ret, raised) ==
            [contract |-> contract, agent |-> agent, config |-> config,
             call |-> Record(ret, raised,
                             <<[api |-> "accept_contract",
                                contract_id |-> current_contract[1].contract_id,
                                accepted |-> current_contract[1].accepted]>>,
                             Some(resp))]
    IN  IF current_contract = None THEN
            [contract |-> current_contract, agent |-> agent_data,
             config |-> strategy_config,
             call |-> Record("NEGOTIATE_CONTRACT", "none", <<>>, None)]
        ELSE IF AlreadyAccepted(current_contract[1]) THEN
            [contract |-> current_contract, agent |-> agent_data,
             config |-> strategy_config,
             call |-> Record("PLAN_FULFILLMENT", "none", <<>>, None)]
        ELSE IF ~r.success THEN
            Out(ClearFailedContract(r.contract), r.agent, strategy_config,
                "NEGOTIATE_CONTRACT", "none")
        ELSE IF AcceptLogRaises(accepted1) THEN
            Out(Some(accepted1), r.agent,
                _record_contract_acceptance(strategy_config, accepted1),
                execute_except, "log_details")
        ELSE
            Out(Some(accepted1), r.agent,
                _record_contract_acceptance(strategy_config, accepted1),
                "PLAN_FULFILLMENT", "none")

----------------------------------------------------------------------------
\* The responses of the API client (api/client.py) that the model draws
\* from.  Every call either returns a parsed payload or raises after the
\* client's retries.

Far == Epoch0 + 3 * SecondsPerDay     \* more than a day after every clock value
Past == Epoch0 - 2 * TickSeconds      \* before every clock value

ContractPayload(id, accepted, fulfilled, expiration, deadline, onA, onF, deliver) ==
    [id |-> id, accepted |-> accepted, fulfilled |-> fulfilled,
     expiration |-> expiration, deadline |-> deadline,
     onAccepted |-> onA, onFulfilled |-> onF, deliver |-> deliver]

Deliver(required, fulfilled) ==
    [unitsRequired |-> required, unitsFulfilled |-> fulfilled]

Local(t) == Some(IsoText(t, FALSE))    \* a timestamp text without offset
Zulu(t) == Some(IsoText(t, TRUE))      \* a timestamp text ending in 'Z'

\* Open offers: two with equal terms, one of 40 units, one unprofitable
\* (50 units for 5000 credits), one with the timestamps the API sends, and
\* two that a small fleet cannot carry or a small account cannot pay for
\* (500 units are estimated to cost 50500, 700 units 70500).
Offers ==
    [c1 |-> ContractPayload("c1", FALSE, FALSE, None, Local(Far), 1000, 4000,
                            <<Deliver(10, 0)>>),
     c2 |-> ContractPayload("c2", FALSE, FALSE, None, Local(Far), 1000, 4000,
                            <<Deliver(10, 0)>>),
     c3 |-> ContractPayload("c3", FALSE, FALSE, None, Local(Far), 2000, 8000,
                            <<Deliver(40, 0)>>),
     c4 |-> ContractPayload("c4", FALSE, FALSE, None, Local(Far), 1000, 4000,
                            <<Deliver(50, 0)>>),
     c7 |-> ContractPayload("c7", FALSE, FALSE, Zulu(Far), Zulu(Far), 1000, 4000,
                            <<Deliver(10, 0)>>),
     c13 |-> ContractPayload("c13", FALSE, FALSE, None, Local(Far), 1000, 4000,
                             <<Deliver(500, 0)>>),
     c14 |-> ContractPayload("c14", FALSE, FALSE, None, Local(Far), 1000, 4000,
                             <<Deliver(350, 0), Deliver(350, 0)>>)]

\* Accepted contracts: all delivered, not all delivered, expired, fulfilled;
\* then three whose terms name no delivery: one with timestamps without
\* offset, one with the timestamps the API sends, one expired.
Held ==
    [a1 |-> ContractPayload("a1", TRUE, FALSE, None, Local(Far), 1000, 4000,
                            <<Deliver(10, 10)>>),
     a2 |-> ContractPayload("a2", TRUE, FALSE, None, Local(Far), 1000, 4000,
                            <<Deliver(10, 0), Deliver(5, 5)>>),
     a3 |-> ContractPayload("a3", TRUE, FALSE, Local(Past), Local(Far), 1000, 4000,
                            <<Deliver(10, 0)>>),
     a4 |-> ContractPayload("a4", TRUE, TRUE, None, Local(Far), 1000, 4000,
                            <<Deliver(10, 10)>>),
     a6 |-> ContractPayload("a6", TRUE, FALSE, None, Local(Far), 1000, 4000,
                            <<>>),
     a7 |-> ContractPayload("a7", TRUE, FALSE, None, Zulu(Far), 1000, 4000,
                            <<>>),
     a8 |-> ContractPayload("a8", TRUE, FALSE, Local(Past), Local(Far), 1000, 4000,
                            <<>>)]

\* What get_my_contracts may list when the assessor / the negotiator asks.
AssessPayloads == {Held.a1, Held.a2, Held.a3, Held.a4, Offers.c7}
NegotiatePayloads == {Offers.c1, Offers.c2, Offers.c3, Offers.c4, Offers.c7}

\* Contract methods are also called directly on these: less than a day
\* left, a naive expiration with an API-style deadline, no deadline at all,
\* an expired offer, a partly delivered contract.
ScorePayloads ==
    LET Near == Epoch0 + SecondsPerDay \div 2 IN
    { Offers.c1, Offers.c3, Offers.c4, Offers.c7,
      ContractPayload("c6", FALSE, FALSE, None, Local(Near), 1000, 4000,
                      <<Deliver(10, 0)>>),
      ContractPayload("c8", FALSE, FALSE, Local(Far), Zulu(Far), 1000, 4000,
                      <<Deliver(10, 0)>>),
      ContractPayload("c9", FALSE, FALSE, Local(Far), None, 1000, 4000,
                      <<Deliver(10, 0)>>),
      ContractPayload("c10", FALSE, FALSE, None, Local(Past), 1000, 4000,
                      <<Deliver(10, 0)>>),
      ContractPayload("a5", TRUE, FALSE, None, Local(Far), 1000, 4000,
                      <<Deliver(50, 20), Deliver(5, 9)>>),
      ContractPayload("c11", FALSE, FALSE, None, Zulu(Past), 1000, 4000,
                      <<Deliver(10, 0)>>),
      ContractPayload("c12", FALSE, FALSE, Local(Far), Local(Past), 1000, 4000,
                      <<Deliver(10, 0)>>) }

\* The lists of at most n distinct members of S.
RECURSIVE ListsUpTo(_, _)
ListsUpTo(S, n) ==
    IF n = 0 THEN {<<>>}
    ELSE LET shorter == ListsUpTo(S, n - 1) IN
         shorter \cup UNION {{Append(s, x) :
                                x \in {y \in S : \A i \in 1..Len(s) : s[i] # y}} :
                             s \in shorter}

ContractsRaises == [raises |-> TRUE, data |-> <<>>]

\* A response whose only contract has a deadline that is no timestamp.
ContractsMalformed ==
    [raises |-> FALSE,
     data |-> <<ContractPayload("c0", FALSE, FALSE, None,
                                Some([t |-> 0, z |-> FALSE, garbled |-> TRUE]),
                                1000, 4000, <<Deliver(10, 0)>>)>>]

\* A response whose only contract is on offer with a deadline, in UTC, that
\* has passed.
ContractsLapsed ==
    [raises |-> FALSE,
     data |-> <<ContractPayload("c9", FALSE, FALSE, None, Zulu(Past),
                                1000, 4000, <<Deliver(10, 0)>>)>>]

ContractsResponses(payloads) ==
    {[raises |-> FALSE, data |-> d] : d \in ListsUpTo(payloads, MaxContracts)}

ShipPayload(symbol, capacity, waypoint, nav_status, fuel, fuel_capacity) ==
    [symbol |-> symbol,
     nav |-> [waypointSymbol |-> waypoint, status |-> nav_status],
     cargo |-> [capacity |-> capacity],
     fuel |-> [current |-> fuel, capacity |-> fuel_capacity]]

ShipsRaises == [raises |-> TRUE, data |-> <<>>]

Ship1 == ShipPayload("S1", 30, "X1-HQ-A1", "DOCKED", 400, 400)
Ship2 == ShipPayload("S2", 30, "X1-HQ-B2", "IN_ORBIT", 50, 400)

ShipsReturns(data) == [raises |-> FALSE, data |-> data]

AgentPayload(credits) == [credits |-> credits, headquarters |-> "X1-HQ-A1"]

AgentRaises == [raises |-> TRUE, has_data |-> FALSE, data |-> AgentPayload(0)]

AgentReturns(credits) ==
    [raises |-> FALSE, has_data |-> TRUE, data |-> AgentPayload(credits)]

\* The accounts the API reports: the agent's credits and its fleet.
Accounts ==
    { <<AgentReturns(60000), ShipsReturns(<<>>)>>,
      <<AgentReturns(60000), ShipsReturns(<<Ship1>>)>>,
      <<AgentReturns(11500), ShipsReturns(<<Ship1, Ship2>>)>>,
      <<AgentReturns(60000), ShipsReturns(<<Ship1, Ship2>>)>> }

\* What AssessSituationState fetches: a later call is made only when the
\* earlier ones returned.
AssessResponses ==
    {<<AgentRaises, ShipsRaises, ContractsRaises>>}
    \cup {<<acct[1], ShipsRaises, ContractsRaises>> : acct \in Accounts}
    \cup {<<acct[1], acct[2], ContractsRaises>> : acct \in Accounts}
    \cup {<<acct[1], acct[2], ContractsMalformed>> : acct \in Accounts}
    \cup {<<acct[1], acct[2], c>> :
             acct \in Accounts, c \in ContractsResponses(AssessPayloads)}

AcceptResponse(raises, has_data, has_contract, has_agent, accepted, credits) ==
    [raises |-> raises, has_data |-> has_data, has_contract |-> has_contract,
     has_agent |-> has_agent,
     contract |-> [accepted |-> accepted, fulfilled |-> FALSE],
     agent |-> AgentPayload(credits)]

AcceptResponses ==
    { AcceptResponse(TRUE, FALSE, FALSE, FALSE, FALSE, 0),
      AcceptResponse(FALSE, FALSE, FALSE, FALSE, FALSE, 0),
      AcceptResponse(FALSE, TRUE, FALSE, TRUE, FALSE, 0),
      AcceptResponse(FALSE, TRUE, TRUE, TRUE, FALSE, 11500),
      AcceptResponse(FALSE, TRUE, TRUE, TRUE, TRUE, 60000),
      [AcceptResponse(FALSE, TRUE, TRUE, TRUE, TRUE, 60000)
          EXCEPT !.contract.fulfilled = TRUE] }

----------------------------------------------------------------------------
\* states/acquire_resources.py

TargetCapacityFloor == 60      \* target_capacity = max(60, current + 20)
TargetCapacityStep == 20
RefuelPercent == 25            \* ShipFuel.needs_refuel: percentage < 25.0
WaypointPageLimit == 20        \* _find_shipyards: limit = 20
NoShipyardSleep == 60          \* time.sleep(60)
NoStockSleep == 300            \* time.sleep(300)
PurchaseFailedSleep == 30      \* time.sleep(30)

\* ShipFuel.needs_refuel: (current / capacity) * 100 < 25.0, the percentage
\* of a tank of capacity 0 being 0.0.
needs_refuel(ship) ==
    IF ship.fuel_capacity = 0 THEN TRUE
    ELSE ship.fuel_current * 100 < RefuelPercent * ship.fuel_capacity

\* ShipNav.is_docked, ShipNav.is_in_transit
is_docked(ship) == ship.status = "DOCKED"
is_in_transit(ship) == ship.status = "IN_TRANSIT"

\* A variant whose target is the floor alone when the fleet holds more.
_analyze_resource_needs_floor(fleet) ==
    LET current_capacity == get_total_cargo_capacity(fleet)
        target_capacity == Max2(TargetCapacityFloor, current_capacity)
        need_fuel == \E i \in 1..Len(fleet) : needs_refuel(fleet[i])
        short == current_capacity < target_capacity
    IN  [need_resources |-> short \/ need_fuel,
         need_cargo_capacity |-> short,
         need_fuel |-> need_fuel,
         min_cargo_needed |-> IF short THEN target_capacity - current_capacity
                              ELSE 0,
         current_capacity |-> current_capacity,
         target_capacity |-> target_capacity]

\* _analyze_resource_needs
_analyze_resource_needs(fleet) ==
    LET current_capacity == get_total_cargo_capacity(fleet)
        target_capacity ==
            Max2(TargetCapacityFloor, current_capacity + TargetCapacityStep)
        need_fuel == \E i \in 1..Len(fleet) : needs_refuel(fleet[i])
        short == current_capacity < target_capacity
    IN  [need_resources |-> short \/ need_fuel,
         need_cargo_capacity |-> short,
         need_fuel |-> need_fuel,
         min_cargo_needed |-> IF short THEN target_capacity - current_capacity
                              ELSE 0,
         current_capacity |-> current_capacity,
         target_capacity |-> target_capacity]

\* get_system_waypoints(system_symbol, page, limit=20): the page the system
\* answers with; past its last page the data is empty.
PageResponse(system, page) ==
    IF page \in 1..Len(system.pages) THEN system.pages[page]
    ELSE [raises |-> FALSE, data |-> <<>>, total |-> 0]

\* A variant that stops after the page it requests first.
FetchOnePage(system, page, all_waypoints) ==
    LET response == PageResponse(system, page) IN
    [raises |-> response.raises,
     all_waypoints |-> IF response.raises THEN all_waypoints
                       ELSE all_waypoints \o response.data,
     requested |-> <<page>>]

\* _find_shipyards, the `while True` loop from page `page` on, all_waypoints
\* holding the pages before it: the waypoints gathered, the pages requested
\* in order, and whether a request raised.
RECURSIVE FetchWaypoints(_, _, _)
FetchWaypoints(system, page, all_waypoints) ==
    LET response == PageResponse(system, page)
        waypoints == response.data
        total_pages == response.total \div WaypointPageLimit
                       + (IF response.total % WaypointPageLimit > 0 THEN 1 ELSE 0)
        rest == FetchWaypoints(system, page + 1, all_waypoints \o waypoints)
    IN  IF response.raises THEN
            [raises |-> TRUE, all_waypoints |-> all_waypoints,
             requested |-> <<page>>]
        ELSE IF waypoints = <<>> THEN
            [raises |-> FALSE, all_waypoints |-> all_waypoints,
             requested |-> <<page>>]
        ELSE IF page >= total_pages \/ Len(waypoints) < WaypointPageLimit THEN
            [raises |-> FALSE, all_waypoints |-> all_waypoints \o waypoints,
             requested |-> <<page>>]
        ELSE [rest EXCEPT !.requested = <<page>> \o @]

\* any(trait.get('symbol') == 'SHIPYARD' for trait in traits)
has_shipyard(waypoint) == "SHIPYARD" \in waypoint.traits

\* A variant that goes on with the waypoints gathered before a request
\* raised.
_find_shipyards_so_far(agent, system) ==
    LET fetched == FetchWaypoints(system, 1, <<>>)
        Listed(w) == has_shipyard(w) /\ ~system.shipyards[w.symbol].raises
        found == SelectSeq(fetched.all_waypoints, Listed)
    IN  IF agent = None THEN <<>>
        ELSE [i \in 1..Len(found) |->
                 [waypoint_symbol |-> found[i].symbol,
                  ships |-> system.shipyards[found[i].symbol].ships]]

\* _find_shipyards: the shipyards of the headquarters system whose details
\* could be fetched, in waypoint order; [] without agent data and when a
\* waypoint request raised.
_find_shipyards(agent, system) ==
    LET fetched == FetchWaypoints(system, 1, <<>>)
        Listed(w) == has_shipyard(w) /\ ~system.shipyards[w.symbol].raises
        found == SelectSeq(fetched.all_waypoints, Listed)
    IN  IF agent = None \/ fetched.raises THEN <<>>
        ELSE [i \in 1..Len(found) |->
                 [waypoint_symbol |-> found[i].symbol,
                  ships |-> system.shipyards[found[i].symbol].ships]]

\* execute: [sy for sy in shipyards if len(sy['shipyard_data'].get('ships', [])) > 0]
StockedShipyards(shipyards) ==
    LET Stocked(sy) == Len(sy.ships) > 0 IN SelectSeq(shipyards, Stocked)

\* _purchase_cargo_ship: the offerings in the order the two loops visit them,
\* each with the waypoint of its shipyard.
RECURSIVE Offerings(_)
Offerings(shipyards) ==
    IF shipyards = <<>> THEN <<>>
    ELSE [i \in 1..Len(shipyards[1].ships) |->
             [ship_info |-> shipyards[1].ships[i],
              waypoint_symbol |-> shipyards[1].waypoint_symbol]]
         \o Offerings(Tail(shipyards))

\* A variant that spends the safety reserve as well.
WithinBudgetNoReserve(ship_info, agent, config) ==
    ~(ship_info.purchasePrice > agent[1].credits)

\* _purchase_cargo_ship: `if price > purchasable_credits: continue`
WithinBudget(ship_info, agent, config) ==
    ~(ship_info.purchasePrice > agent[1].credits - config.safety_credit_reserve)

\* _purchase_cargo_ship: `if cargo_capacity <= 0:` raises TypeError on a
\* capacity that is no number (None, a text).
CapacityTestRaises(ship_info) == "garbled" \in DOMAIN ship_info

\* _purchase_cargo_ship: the loops reach the capacity test of an offering
\* whose price is within the budget and whose capacity is no number.
ScanRaises(shipyards, agent, config) ==
    LET offerings == Offerings(shipyards) IN
    \E i \in 1..Len(offerings) :
        /\ WithinBudget(offerings[i].ship_info, agent, config)
        /\ CapacityTestRaises(offerings[i].ship_info)

\* _purchase_cargo_ship: the three `continue` tests of an offering.
Eligible(ship_info, agent, config, min_cargo_needed) ==
    /\ WithinBudget(ship_info, agent, config)
    /\ ~(ship_info.capacity <= 0)
    /\ ~(ship_info.capacity < min_cargo_needed)

\* value = cargo_capacity / max(price, 1)
OfferingValue(ship_info) ==
    Rat(ship_info.capacity, Max2(ship_info.purchasePrice, 1))

\* A variant that replaces the best offering on an equal value too.
BetterValueOrEqual(value, best_value) == RatLeq(best_value, value)

\* `if value > best_value:`
BetterValue(value, best_value) == RatLess(best_value, value)

\* _purchase_cargo_ship: the loops over the offerings, from best_ship = None
\* and best_value = 0.
RECURSIVE ScanOfferings(_, _, _, _, _, _)
ScanOfferings(offerings, agent, config, min_cargo_needed, best, best_value) ==
    IF offerings = <<>> THEN best
    ELSE LET o == offerings[1]
             value == OfferingValue(o.ship_info)
             take == /\ Eligible(o.ship_info, agent, config, min_cargo_needed)
                     /\ BetterValue(value, best_value)
         IN  ScanOfferings(Tail(offerings), agent, config, min_cargo_needed,
                           IF take THEN Some(o) ELSE best,
                           IF take THEN value ELSE best_value)

BestOffering(shipyards, agent, config, min_cargo_needed) ==
    ScanOfferings(Offerings(shipyards), agent, config, min_cargo_needed,
                  None, RatInt(0))

\* A variant that takes the first ship of the fleet, wherever it is.
_get_ship_anywhere(fleet, waypoint_symbol) ==
    IF fleet = <<>> THEN None ELSE Some(fleet[1])

\* _get_ship_at_waypoint: the first ship recorded at the waypoint, or None.
_get_ship_at_waypoint(fleet, waypoint_symbol) ==
    LET At(ship) == ship.waypoint_symbol = waypoint_symbol
        found == SelectSeq(fleet, At)
    IN  IF found = <<>> THEN None ELSE Some(found[1])

\* A variant that skips no ship.
MovableAlways(ship) == TRUE

\* _move_ship_to_waypoint: a ship in transit or without fuel is skipped.
Movable(ship) == ~is_in_transit(ship) /\ ~(ship.fuel_current <= 0)

\* _move_ship_to_waypoint: the calls it issues and the bool it returns,
\* given whether orbit_ship raises and what navigate_ship answers.  The
\* context's fleet is not touched.
_move_ship_to_waypoint(fleet, waypoint_symbol, orbit_raises, navigate_resp) ==
    LET candidates == SelectSeq(fleet, Movable)
        best_ship == candidates[1]
        orbit == [api |-> "orbit_ship", ship |-> best_ship.symbol,
                  waypoint |-> best_ship.waypoint_symbol]
        navigate == [api |-> "navigate_ship", ship |-> best_ship.symbol,
                     waypoint |-> waypoint_symbol]
    IN  IF candidates = <<>> THEN [success |-> FALSE, issued |-> <<>>]
        ELSE IF is_docked(best_ship) /\ orbit_raises THEN
            [success |-> FALSE, issued |-> <<orbit>>]
        ELSE [success |-> ~navigate_resp.raises /\ navigate_resp.truthy,
              issued |-> (IF is_docked(best_ship) THEN <<orbit>> ELSE <<>>)
                         \o <<navigate>>]

\* _execute_ship_purchase: `if response and 'data' in response:` ... return
\* True, whatever the data holds.
PurchaseReported(resp) == ~resp.raises /\ resp.has_data

\* _execute_ship_purchase: the fleet and agent data it leaves, the calls it
\* issued and the bool it returns.
_execute_ship_purchase(offering, fleet, agent, orbit_raises, navigate_resp, purchase_resp) ==
    LET ship_at_shipyard == _get_ship_at_waypoint(fleet, offering.waypoint_symbol)
        move == _move_ship_to_waypoint(fleet, offering.waypoint_symbol,
                                       orbit_raises, navigate_resp)
        purchase == [api |-> "purchase_ship",
                     ship |-> offering.ship_info.type,
                     waypoint |-> offering.waypoint_symbol]
        taken == PurchaseReported(purchase_resp)
    IN  IF ship_at_shipyard = None THEN
            \* After a move the fleet snapshot is as before, so the second
            \* _get_ship_at_waypoint finds no ship either.
            [success |-> FALSE, fleet |-> fleet, agent |-> agent,
             issued |-> move.issued, response |-> None]
        ELSE
            [success |-> taken,
             fleet |-> IF taken /\ purchase_resp.has_ship
                       THEN Append(fleet, Ship_from_api_response(purchase_resp.ship))
                       ELSE fleet,
             agent |-> IF taken /\ purchase_resp.has_agent
                       THEN Some(AgentData_from_api_response(purchase_resp.agent))
                       ELSE agent,
             issued |-> <<purchase>>,
             response |-> Some(purchase_resp)]

\* _purchase_cargo_ship
_purchase_cargo_ship(shipyards, min_cargo_needed, fleet, agent, config, orbit_raises, navigate_resp, purchase_resp) ==
    LET best == BestOffering(shipyards, agent, config, min_cargo_needed) IN
    IF agent = None \/ best = None THEN
        [success |-> FALSE, fleet |-> fleet, agent |-> agent,
         issued |-> <<>>, response |-> None, best |-> None]
    ELSE LET r == _execute_ship_purchase(best[1], fleet, agent, orbit_raises,
                                         navigate_resp, purchase_resp)
         IN  [success |-> r.success, fleet |-> r.fleet, agent |-> r.agent,
              issued |-> r.issued, response |-> r.response, best |-> best]

\* A variant that refuels every docked ship.
_ensure_docked_ships_fueled(fleet) ==
    LET due == SelectSeq(fleet, is_docked)
    IN  [i \in 1..Len(due) |->
            [api |-> "refuel_ship", ship |-> due[i].symbol,
             waypoint |-> due[i].waypoint_symbol]]

\* _ensure_ships_fueled: the refuel_ship calls, one for each docked ship
\* that needs fuel, in fleet order (a call that raises is logged).
_ensure_ships_fueled(fleet) ==
    LET Due(ship) == needs_refuel(ship) /\ is_docked(ship)
        due == SelectSeq(fleet, Due)
    IN  [i \in 1..Len(due) |->
            [api |-> "refuel_ship", ship |-> due[i].symbol,
             waypoint |-> due[i].waypoint_symbol]]

\* _refresh_ship_data: the fleet is replaced by what get_my_ships returns,
\* and kept when the call raises.
_refresh_ship_data(fleet, ships_resp) ==
    IF ships_resp.raises THEN fleet ELSE ParseShips(ships_resp.data)

----------------------------------------------------------------------------
\* What the API answers during resource acquisition.

NavigateResponse(kind) ==
    [raises |-> kind = "raises", truthy |-> kind = "ok"]

\* The payload get_my_ships sends for a ship of the fleet snapshot.
ShipPayloadOf(ship) ==
    ShipPayload(ship.symbol, ship.cargo_capacity, ship.waypoint_symbol,
                ship.status, ship.fuel_current, ship.fuel_capacity)

\* The ship a shipyard hands over for an offering: docked at the shipyard
\* with a full tank, named after its place in the fleet.
SoldShip(offering, fleet) ==
    ShipPayload(<<"N1", "N2", "N3", "N4", "N5", "N6">>[Len(fleet) + 1],
                offering.ship_info.capacity, offering.waypoint_symbol,
                "DOCKED", 100, 100)

\* purchase_ship(ship_type, waypoint_symbol): the call raises, or answers
\* without `data`, or with `data` holding the agent charged the listed price
\* and the new ship, either of which may be missing.
PurchaseResponse(kind, best, agent, fleet) ==
    IF best = None \/ agent = None THEN
        [raises |-> TRUE, has_data |-> FALSE, has_ship |-> FALSE,
         has_agent |-> FALSE, ship |-> Ship1, agent |-> AgentPayload(0)]
    ELSE
        [raises |-> kind = "raises",
         has_data |-> kind \in {"full", "no_ship", "no_agent"},
         has_ship |-> kind \in {"full", "no_agent"},
         has_agent |-> kind \in {"full", "no_ship"},
         ship |-> SoldShip(best[1], fleet),
         agent |-> AgentPayload(agent[1].credits
                                - best[1].ship_info.purchasePrice)]

\* get_my_ships during _refresh_ship_data: the call raises, or reports the
\* fleet of the snapshot, or that fleet and a ship the shipyard sold without
\* sending its payload.
ShipsResponse(kind, fleet, best) ==
    LET known == [i \in 1..Len(fleet) |-> ShipPayloadOf(fleet[i])] IN
    IF kind = "raises" THEN ShipsRaises
    ELSE IF kind = "with_sold" /\ best # None
         THEN ShipsReturns(Append(known, SoldShip(best[1], fleet)))
    ELSE ShipsReturns(known)

\* A variant that sets the flag and leaves the time of the attempt alone.
MarkAcquireFailedNoTime(config, clock) ==
    [config EXCEPT !.acquire_failed = TRUE]

\* execute: strategy_config['last_acquire_attempt'] = time.time() and
\* strategy_config['acquire_failed'] = True
MarkAcquireFailed(config, clock) ==
    [config EXCEPT !.last_acquire_attempt = clock, !.acquire_failed = TRUE]

\* AcquireResourcesState.execute: the context and the call record it leaves.
\* `world` holds what the API answers during the call: the waypoints and
\* shipyards of the headquarters system, whether orbit_ship raises, and the
\* answers of navigate_ship, purchase_ship and get_my_ships.
AcquireResult(world) ==
    LET needs == _analyze_resource_needs(ships)
        shipyards == _find_shipyards(agent_data, world.system)
        \* For the record: what the pagination loop of _find_shipyards did.
        fetched == IF agent_data = None \/ ~needs.need_resources
                   THEN [raises |-> FALSE, all_waypoints |-> <<>>,
                         requested |-> <<>>]
                   ELSE FetchWaypoints(world.system, 1, <<>>)
        shipyards_with_ships == StockedShipyards(shipyards)
        best == BestOffering(shipyards_with_ships, agent_data, strategy_config,
                             needs.min_cargo_needed)
        p == IF needs.need_cargo_capacity
             THEN _purchase_cargo_ship(
                      shipyards_with_ships, needs.min_cargo_needed, ships,
                      agent_data, strategy_config, world.orbit_raises,
                      NavigateResponse(world.navigate),
                      PurchaseResponse(world.purchase, best, agent_data, ships))
             ELSE [success |-> TRUE, fleet |-> ships, agent |-> agent_data,
                   issued |-> <<>>, response |-> None, best |-> None]
        refuels == _ensure_ships_fueled(p.fleet)
        ships_resp == ShipsResponse(world.refresh, p.fleet, best)
        refreshed == _refresh_ship_data(p.fleet, ships_resp)
        get_my_ships == [api |-> "get_my_ships", ship |-> "", waypoint |-> ""]
        marked == MarkAcquireFailed(strategy_config, now)
        Record(slept, issued, response, selected, success) ==
            [Call("ACQUIRE_RESOURCES", "NEGOTIATE_CONTRACT", "none", slept,
                  <<>>, <<>>, <<>>, <<>>, None)
                EXCEPT !.issued = issued, !.response = response,
                       !.detail = Some([needs |-> needs,
                                        shipyards |-> shipyards,
                                        stocked |-> shipyards_with_ships,
                                        best |-> selected,
                                        success |-> success,
                                        refuels_raised |-> <<>>,
                                        refresh |-> None,
                                        fetched |-> fetched,
                                        pages |-> world.system.pages,
                                        inventories |-> world.system.shipyards])]
        Out(fleet, agent, config, record) ==
            [fleet |-> fleet, agent |-> agent, config |-> config,
             call |-> record]
    IN  IF ~needs.need_resources THEN
            Out(ships, agent_data, strategy_config,
                Record(0, <<>>, None, None, FALSE))
        ELSE IF shipyards = <<>> THEN
            Out(ships, agent_data, marked,
                Record(NoShipyardSleep, <<>>, None, None, FALSE))
        ELSE IF shipyards_with_ships = <<>> THEN
            Out(ships, agent_data, marked,
                Record(NoStockSleep, <<>>, None, None, FALSE))
        ELSE IF /\ needs.need_cargo_capacity
                /\ agent_data # None
                /\ ScanRaises(shipyards_with_ships, agent_data, strategy_config)
             THEN
            Out(ships, agent_data, strategy_config,
                [Record(0, <<>>, None, None, FALSE)
                    EXCEPT !.ret = execute_except, !.raised = "cargo_capacity"])
        ELSE IF ~p.success THEN
            Out(p.fleet, p.agent, strategy_config,
                Record(PurchaseFailedSleep, p.issued, p.response, p.best, FALSE))
        ELSE
            \* A refuel_ship that raises is logged and the loop goes on to
            \* the next ship; then comes get_my_ships.
            Out(refreshed, p.agent, strategy_config,
                [Record(0, p.issued \o refuels \o <<get_my_ships>>,
                        p.response, p.best, needs.need_cargo_capacity)
                    EXCEPT !.detail[1].refuels_raised =
                               IF world.refuel_raises THEN refuels ELSE <<>>,
                           !.detail[1].refresh = Some(ships_resp)])

----------------------------------------------------------------------------
\* The state classes as actions on the context.

\* AgentContext(...) with no agent data, no contract and no ships.
CtxInit ==
    /\ agent_data = None
    /\ current_contract = None
    /\ ships = <<>>
    /\ strategy_config = DefaultStrategyConfig
    /\ now = Epoch0
    /\ call = NoCall
    /\ query = None
    /\ failed_acquire_at = [any |-> None, no_stock |-> None]

\* AssessSituationState(context).execute()
AssessSituation ==
    \E resp \in AssessResponses :
        LET r == AssessResult(resp[1], resp[2], resp[3]) IN
        /\ agent_data' = r.agent
        /\ ships' = r.fleet
        /\ current_contract' = r.contract
        /\ call' = r.call
        /\ UNCHANGED <<strategy_config, now, query, failed_acquire_at>>
        /\ UNCHANGED ctlvars

\* AssessSituationState(context).execute() when get_my_contracts lists
\* contracts whose terms name no delivery.
AssessEmptyTerms ==
    \E acct \in Accounts,
       c \in ContractsResponses({Held.a2, Held.a6, Held.a7, Held.a8}) :
        LET r == AssessResult(acct[1], acct[2], c) IN
        /\ agent_data' = r.agent
        /\ ships' = r.fleet
        /\ current_contract' = r.contract
        /\ call' = r.call
        /\ UNCHANGED <<strategy_config, now, query, failed_acquire_at>>
        /\ UNCHANGED ctlvars

\* NegotiateContractState(context).execute()
NegotiateContract ==
    \E resp \in ContractsResponses(NegotiatePayloads)
                 \cup {ContractsRaises, ContractsMalformed, ContractsLapsed} :
        LET r == NegotiateResult(resp) IN
        /\ current_contract' = r.contract
        /\ call' = r.call
        /\ UNCHANGED <<agent_data, ships, strategy_config, now, query, failed_acquire_at>>
        /\ UNCHANGED ctlvars

\* AcceptContractState(context).execute()
AcceptContract ==
    \E resp \in AcceptResponses :
        LET r == AcceptResult(resp) IN
        /\ current_contract' = r.contract
        /\ agent_data' = r.agent
        /\ strategy_config' = r.config
        /\ call' = r.call
        /\ UNCHANGED <<ships, now, query, failed_acquire_at>>
        /\ UNCHANGED ctlvars

----------------------------------------------------------------------------
\* Contract.calculate_profitability_score called directly.

ScoreQueries ==
    [data : ScorePayloads, cargo_capacity : {30, 100},
     estimated_costs : {0, 2000, 6000},
     done : {FALSE}, raised : {FALSE}, score : {RatInt(0)}, prior : {None}]

\* A contract built from a payload, a capacity and a cost estimate, at some
\* clock value.
ScoreInit ==
    /\ agent_data = None
    /\ current_contract = None
    /\ ships = <<>>
    /\ strategy_config = DefaultStrategyConfig
    /\ now \in {Epoch0 + k * TickSeconds : k \in 0..MaxTicks}
    /\ call = NoCall
    /\ query \in {Some(q) : q \in ScoreQueries}
    /\ failed_acquire_at = [any |-> None, no_stock |-> None]

\* contract.calculate_profitability_score(cargo_capacity, estimated_costs)
EvalScore ==
    /\ query # None
    /\ ~query[1].done
    /\ LET q == query[1]
           c == Contract_from_api_response(q.data, now)
           raises == score_raises(c, q.cargo_capacity, q.estimated_costs, now)
       IN  query' = Some([q EXCEPT
                !.done = TRUE,
                !.raised = raises,
                !.score = IF raises THEN RatInt(0)
                          ELSE calculate_profitability_score(
                                   c, q.cargo_capacity, q.estimated_costs, now)])
    /\ UNCHANGED <<agent_data, current_contract, ships, strategy_config, now,
                   call, failed_acquire_at>>
    /\ UNCHANGED ctlvars

\* A second call of calculate_profitability_score on the same contract, with
\* the same capacity at the same clock value and another cost estimate; the
\* outcome of the first call is kept in `prior`.
EvalScoreAgain ==
    /\ query # None
    /\ query[1].done
    /\ query[1].prior = None
    /\ \E estimated_costs \in {0, 2000, 6000} \ {query[1].estimated_costs} :
          LET q == query[1]
              c == Contract_from_api_response(q.data, now)
              raises == score_raises(c, q.cargo_capacity, estimated_costs, now)
          IN  query' = Some([q EXCEPT
                   !.estimated_costs = estimated_costs,
                   !.raised = raises,
                   !.score = IF raises THEN RatInt(0)
                             ELSE calculate_profitability_score(
                                      c, q.cargo_capacity, estimated_costs, now),
                   !.prior = Some([estimated_costs |-> q.estimated_costs,
                                   raised |-> q.raised,
                                   score |-> q.score])])
    /\ UNCHANGED <<agent_data, current_contract, ships, strategy_config, now,
                   call, failed_acquire_at>>
    /\ UNCHANGED ctlvars

----------------------------------------------------------------------------
\* Contract.status and the properties of ContractDelivery read directly.

\* Contracts of every combination of the flags, with and without an
\* expiration, the timestamps past or ahead and with or without offset, and
\* one delivery of every pair of units from -1 to MaxUnits; nothing read yet.
ModelQueries ==
    LET Instants == {Local(Past), Local(Far), Zulu(Past), Zulu(Far)} IN
    [data : {ContractPayload("m1", accepted, fulfilled, expiration, deadline,
                             1000, 4000, <<Deliver(required, delivered)>>) :
                accepted \in BOOLEAN, fulfilled \in BOOLEAN,
                expiration \in {None} \cup Instants,
                deadline \in {None} \cup Instants,
                required \in -1..MaxUnits, delivered \in -1..MaxUnits},
     status_read : {FALSE}, status_raised : {FALSE}, status : {"none"},
     delivery_read : {FALSE}, is_completed : {FALSE}, remaining_units : {0}]

\* A contract built by Contract.from_api_response, outside any context.
InitModels ==
    /\ CtlInit
    /\ agent_data = None
    /\ current_contract = None
    /\ ships = <<>>
    /\ strategy_config = DefaultStrategyConfig
    /\ now = Epoch0
    /\ call = NoCall
    /\ query \in {Some(q) : q \in ModelQueries}
    /\ failed_acquire_at = [any |-> None, no_stock |-> None]

\* contract.status
ReadStatus ==
    /\ query # None
    /\ ~query[1].status_read
    /\ LET c == Contract_from_api_response(query[1].data, now) IN
       query' = Some([query[1] EXCEPT
                         !.status_read = TRUE,
                         !.status_raised = status_raises(c),
                         !.status = IF status_raises(c) THEN "none"
                                    ELSE status(c, now)])
    /\ UNCHANGED <<agent_data, current_contract, ships, strategy_config, now,
                   call, failed_acquire_at>>
    /\ UNCHANGED ctlvars

\* contract.terms.deliveries[0].is_completed and .remaining_units
ReadDelivery ==
    /\ query # None
    /\ ~query[1].delivery_read
    /\ LET c == Contract_from_api_response(query[1].data, now) IN
       query' = Some([query[1] EXCEPT
                         !.delivery_read = TRUE,
                         !.is_completed = is_completed(c.deliveries[1]),
                         !.remaining_units = remaining_units(c.deliveries[1])])
    /\ UNCHANGED <<agent_data, current_contract, ships, strategy_config, now,
                   call, failed_acquire_at>>
    /\ UNCHANGED ctlvars

----------------------------------------------------------------------------
\* Negotiation and resource acquisition on one context, with the clock.

\* The waypoints of the headquarters system.
Waypoints ==
    LET Waypoint(symbol, traits) == [symbol |-> symbol, traits |-> traits] IN
    [A1 |-> Waypoint("X1-HQ-A1", {"MARKETPLACE", "SHIPYARD"}),
     B2 |-> Waypoint("X1-HQ-B2", {"MARKETPLACE"}),
     Y9 |-> Waypoint("X1-HQ-Y9", {"SHIPYARD"})]

\* What shipyards offer.  With 60000 credits and the reserve of 10000 the
\* light freighter costs all that may be spent and the heavy one 1 more.
\* The drone is listed with a cargo capacity that is no number.
ShipTypes ==
    LET Offering(type, purchasePrice, capacity) ==
            [type |-> type, purchasePrice |-> purchasePrice,
             capacity |-> capacity]
    IN  [Probe |-> Offering("SHIP_PROBE", 5000, 0),
         Shuttle |-> Offering("SHIP_LIGHT_SHUTTLE", 10000, 10),
         Hauler |-> Offering("SHIP_LIGHT_HAULER", 20000, 40),
         Barge |-> Offering("SHIP_BARGE", 30000, 60),
         HeavyFreighter |-> Offering("SHIP_HEAVY_FREIGHTER", 50001, 200),
         LightFreighter |-> Offering("SHIP_LIGHT_FREIGHTER", 50000, 120),
         Drone |-> [type |-> "SHIP_MINING_DRONE", purchasePrice |-> 45000,
                    capacity |-> 0, garbled |-> TRUE]]

\* A system: the pages get_system_waypoints answers with and what
\* get_shipyard answers for each waypoint.
System(pages, a1, y9) ==
    [pages |-> pages,
     shipyards |-> [w \in {"X1-HQ-A1", "X1-HQ-B2", "X1-HQ-Y9"} |->
                       IF w = "X1-HQ-A1" THEN a1
                       ELSE IF w = "X1-HQ-Y9" THEN y9
                       ELSE [raises |-> TRUE, ships |-> <<>>]]]

\* The systems the headquarters may lie in.
Systems ==
    LET W == Waypoints
        T == ShipTypes
        WaypointsPage(data) ==
            [raises |-> FALSE, data |-> data, total |-> Len(data)]
        WaypointsRaises == [raises |-> TRUE, data |-> <<>>, total |-> 0]
        ShipyardReturns(offerings) == [raises |-> FALSE, ships |-> offerings]
        Empty == ShipyardReturns(<<>>)
        \* Waypoints without traits, to fill pages.
        Plain == [i \in 1..40 |->
                    [symbol |-> <<"X1-HQ-F01", "X1-HQ-F02", "X1-HQ-F03",
                                  "X1-HQ-F04", "X1-HQ-F05", "X1-HQ-F06",
                                  "X1-HQ-F07", "X1-HQ-F08", "X1-HQ-F09",
                                  "X1-HQ-F10", "X1-HQ-F11", "X1-HQ-F12",
                                  "X1-HQ-F13", "X1-HQ-F14", "X1-HQ-F15",
                                  "X1-HQ-F16", "X1-HQ-F17", "X1-HQ-F18",
                                  "X1-HQ-F19", "X1-HQ-F20", "X1-HQ-F21",
                                  "X1-HQ-F22", "X1-HQ-F23", "X1-HQ-F24",
                                  "X1-HQ-F25", "X1-HQ-F26", "X1-HQ-F27",
                                  "X1-HQ-F28", "X1-HQ-F29", "X1-HQ-F30",
                                  "X1-HQ-F31", "X1-HQ-F32", "X1-HQ-F33",
                                  "X1-HQ-F34", "X1-HQ-F35", "X1-HQ-F36",
                                  "X1-HQ-F37", "X1-HQ-F38", "X1-HQ-F39",
                                  "X1-HQ-F40">>[i],
                     traits |-> {}]]
        \* The pages the API cuts a system's waypoints into: WaypointPageLimit
        \* to a page, each declaring the system's total.
        Paged(all) ==
            [n \in 1..((Len(all) + WaypointPageLimit - 1)
                          \div WaypointPageLimit) |->
                [raises |-> FALSE,
                 data |-> SubSeq(all, (n - 1) * WaypointPageLimit + 1,
                                 IF n * WaypointPageLimit < Len(all)
                                 THEN n * WaypointPageLimit ELSE Len(all)),
                 total |-> Len(all)]]
    IN  [NoShipyard |->
            System(<<WaypointsPage(<<W.B2>>)>>, Empty, Empty),
         WaypointsRaise |->
            System(<<WaypointsRaises>>, Empty, Empty),
         NoStock |->
            System(<<WaypointsPage(<<W.A1, W.B2, W.Y9>>)>>, Empty, Empty),
         NothingSuitable |->
            System(<<WaypointsPage(<<W.A1, W.B2>>)>>,
                   ShipyardReturns(<<T.Probe, T.Shuttle, T.HeavyFreighter>>),
                   Empty),
         Here |->
            System(<<WaypointsPage(<<W.A1, W.B2>>)>>,
                   ShipyardReturns(<<T.Probe, T.Shuttle, T.Hauler,
                                     T.HeavyFreighter, T.LightFreighter>>),
                   Empty),
         Away |->
            System(<<WaypointsPage(<<W.B2, W.Y9>>)>>,
                   Empty, ShipyardReturns(<<T.Barge>>)),
         TwoShipyards |->
            System(<<WaypointsPage(<<W.A1, W.B2, W.Y9>>)>>,
                   ShipyardReturns(<<T.Shuttle, T.Hauler>>),
                   ShipyardReturns(<<T.Barge>>)),
         Garbled |->
            System(<<WaypointsPage(<<W.A1, W.B2>>)>>,
                   ShipyardReturns(<<T.Shuttle, T.Drone, T.Hauler>>),
                   Empty),
         \* Of two shipyards the first does not answer.
         ShipyardRaises |->
            System(<<WaypointsPage(<<W.A1, W.B2, W.Y9>>)>>,
                   [raises |-> TRUE, ships |-> <<>>],
                   ShipyardReturns(<<T.Barge>>)),
         \* 41 waypoints on three pages, the shipyard being the last.
         ThreePages |->
            System(Paged(Plain \o <<W.Y9>>),
                   Empty, ShipyardReturns(<<T.Barge>>)),
         \* 40 waypoints on two full pages.
         TwoFullPages |->
            System(Paged(SubSeq(Plain, 1, 39) \o <<W.Y9>>),
                   Empty, ShipyardReturns(<<T.Barge>>)),
         \* The first of three pages holds a shipyard; the second request
         \* raises.
         SecondPageRaises |->
            System(<<Paged(<<W.A1>> \o Plain)[1], WaypointsRaises>>,
                   ShipyardReturns(<<T.Hauler>>), Empty)]

World(system, orbit_raises, navigate, purchase, refresh) ==
    [system |-> system, orbit_raises |-> orbit_raises, navigate |-> navigate,
     purchase |-> purchase, refresh |-> refresh, refuel_raises |-> FALSE]

\* The answers the API gives during one acquisition: those of calls the
\* handler does not reach are left at their first value.
Worlds ==
    {World(s, FALSE, "ok", "full", "same") :
        s \in {Systems.NoShipyard, Systems.WaypointsRaise,
              Systems.NoStock, Systems.NothingSuitable}}
    \cup {World(Systems.Away, TRUE, "ok", "full", "same")}
    \cup {World(Systems.Away, FALSE, n, "full", "same") : n \in {"raises", "empty", "ok"}}
    \cup {World(Systems.Here, FALSE, "ok", p, "same") : p \in {"raises", "no_data"}}
    \cup {World(Systems.Here, FALSE, "ok", p, r) :
            p \in {"full", "no_agent"}, r \in {"same", "raises"}}
    \cup {World(Systems.Here, FALSE, "ok", "no_ship", r) :
            r \in {"same", "with_sold", "raises"}}
    \cup {[World(Systems.Here, FALSE, "ok", "full", r)
               EXCEPT !.refuel_raises = TRUE] : r \in {"same", "raises"}}
    \cup {World(Systems.TwoShipyards, FALSE, "ok", "full", "same")}
    \cup {World(Systems.Garbled, FALSE, "ok", "full", "same")}
    \cup {World(s, FALSE, "ok", "full", "same") :
            s \in {Systems.ThreePages, Systems.TwoFullPages,
                   Systems.SecondPageRaises, Systems.ShipyardRaises}}

\* The third fleet is one ship that holds more than the first contract asks
\* for; the fourth has a ship under way before one that can be sent; the
\* ships of the next two cannot be sent anywhere; the last fleet has as many
\* ships as max_ships allows.
FleetAccounts ==
    { <<AgentPayload(60000), <<Ship1>>>>,
      <<AgentPayload(50000), <<Ship1>>>>,
      <<AgentPayload(60000),
        <<ShipPayload("S9", 600, "X1-HQ-B2", "IN_ORBIT", 20, 400)>>>>,
      <<AgentPayload(60000),
        <<ShipPayload("S3", 30, "X1-HQ-B2", "IN_TRANSIT", 400, 400), Ship2>>>>,
      <<AgentPayload(60000),
        <<ShipPayload("S4", 30, "X1-HQ-A1", "DOCKED", 0, 400)>>>>,
      <<AgentPayload(60000),
        <<ShipPayload("S3", 30, "X1-HQ-B2", "IN_TRANSIT", 400, 400),
          ShipPayload("S4", 30, "X1-HQ-A1", "DOCKED", 0, 400)>>>>,
      <<AgentPayload(60000),
        <<Ship1, Ship2,
          ShipPayload("S5", 0, "X1-HQ-B2", "IN_ORBIT", 400, 400),
          ShipPayload("S6", 0, "X1-HQ-B2", "IN_ORBIT", 400, 400),
          ShipPayload("S7", 0, "X1-HQ-B2", "IN_ORBIT", 400, 400)>>>> }

\* A context as an assessment leaves it: agent data and a fleet.
FleetInit ==
    /\ \E account \in FleetAccounts :
          /\ agent_data = Some(AgentData_from_api_response(account[1]))
          /\ ships = ParseShips(account[2])
    /\ current_contract = None
    /\ strategy_config = DefaultStrategyConfig
    /\ now = Epoch0
    /\ call = NoCall
    /\ query = None
    /\ failed_acquire_at = [any |-> None, no_stock |-> None]

\* NegotiateContractState(context).execute() on contracts that are large
\* for the fleet or dear for the account.
NegotiateLargeContracts ==
    \E resp \in ContractsResponses({Offers.c13, Offers.c14})
                 \cup {ContractsRaises, ContractsMalformed} :
        LET r == NegotiateResult(resp) IN
        /\ current_contract' = r.contract
        /\ call' = r.call
        /\ UNCHANGED <<agent_data, ships, strategy_config, now, query,
                       failed_acquire_at>>
        /\ UNCHANGED ctlvars

\* AcquireResourcesState(context).execute(), on the fleet the context was
\* built with or on a later one of fewer than MaxShips ships.
AcquireResources ==
    /\ call = NoCall \/ Len(ships) < MaxShips
    /\ \E world \in Worlds :
          LET r == AcquireResult(world) IN
          /\ ships' = r.fleet
          /\ agent_data' = r.agent
          /\ strategy_config' = r.config
          /\ call' = r.call
          /\ failed_acquire_at' =
                IF r.call.detail[1].success THEN failed_acquire_at
                ELSE [any |-> Some(now),
                      no_stock |-> IF r.call.detail[1].stocked = <<>>
                                   THEN Some(now)
                                   ELSE failed_acquire_at.no_stock]
    /\ UNCHANGED <<current_contract, now, query>>
    /\ UNCHANGED ctlvars

\* Time passes between two calls.
Tick ==
    /\ now < Epoch0 + MaxTicks * TickSeconds
    /\ now' = now + TickSeconds
    /\ UNCHANGED <<agent_data, current_contract, ships, strategy_config, call,
                   query, failed_acquire_at>>
    /\ UNCHANGED ctlvars

----------------------------------------------------------------------------
Init == CtlInit /\ CtxInit

\* The state classes, called in any order on one context.
Next == AssessSituation \/ NegotiateContract \/ AcceptContract

Spec == Init /\ [][Next]_vars

\* The methods of models/contract.py called directly on parsed payloads.
InitScore == CtlInit /\ ScoreInit

NextScore == EvalScore \/ EvalScoreAgain

SpecScore == InitScore /\ [][NextScore]_vars

\* Negotiation and resource acquisition in any order, as time passes.
InitFleet == CtlInit /\ FleetInit

NextFleet == NegotiateLargeContracts \/ AcquireResources \/ Tick

SpecFleet == InitFleet /\ [][NextFleet]_vars

\* The properties of models/contract.py read directly on parsed payloads.
NextModels == ReadStatus \/ ReadDelivery

SpecModels == InitModels /\ [][NextModels]_vars

\* The four state classes, called in any order on one context.
NextStates ==
    AssessSituation \/ NegotiateContract \/ AcceptContract \/ AcquireResources

SpecStates == Init /\ [][NextStates]_vars

\* The state classes on one context whose contracts may name no delivery.
NextTerms == AssessEmptyTerms \/ NegotiateContract \/ AcceptContract

SpecTerms == Init /\ [][NextTerms]_vars

\* The controller loop of agent.py.
SpecCtl == Init /\ [][CtlNext]_vars

\* The controller with its scheduling: the loop test and the pause always
\* complete, and a dispatched handler that can return eventually does.
FairCtl ==
    /\ Init /\ [][CtlNext]_vars
    /\ WF_vars(LoopTop) /\ WF_vars(Pause) /\ SF_vars(HandlerReturn)

----------------------------------------------------------------------------
\* Claims about the controller loop (checked under SpecCtl / FairCtl).

\* C1: whenever the dispatched handler raises an exception other than the
\* shutdown signal, errors_encountered grows by exactly 1, current_state
\* becomes ERROR_RECOVERY and the loop goes on to its next test with running
\* still set; the loop only ever ends with running cleared by a shutdown.
C1_HandlerExceptionRecovered ==
    /\ [][(pc = "handler" /\ outcome' = "raised") =>
            /\ errors_encountered' = errors_encountered + 1
            /\ current_state' = "ERROR_RECOVERY"
            /\ running' = TRUE
            /\ pc' = "top"]_vars
    /\ [](pc = "done" => (~running /\ outcome # "raised"))

\* C1 witness: two handler exceptions were absorbed and the loop has
\* dispatched the ERROR_RECOVERY handler once more.
C1_Witness ==
    /\ errors_encountered = 2
    /\ outcome = "raised"
    /\ current_state = "ERROR_RECOVERY"
    /\ pc = "handler"

\* C2: the ERROR_RECOVERY handler returns ASSESS_SITUATION and changes
\* nothing else; the only state ever entered from ERROR_RECOVERY is
\* ASSESS_SITUATION; and while the loop keeps running it is eventually
\* entered.
C2_ErrorRecoveryReturnsToAssess ==
    /\ [][(pc = "handler" /\ current_state = "ERROR_RECOVERY"
             /\ outcome' = "returned") =>
            /\ current_state' = "ASSESS_SITUATION"
            /\ errors_encountered' = errors_encountered
            /\ contracts_completed' = contracts_completed
            /\ running' = running]_vars
    /\ [][(current_state = "ERROR_RECOVERY" /\ current_state' # current_state)
            => current_state' = "ASSESS_SITUATION"]_vars
    /\ (current_state = "ERROR_RECOVERY")
          ~> (current_state = "ASSESS_SITUATION" \/ pc = "done")

\* C2 witness: the ERROR_RECOVERY handler has just returned, after a handler
\* exception, and the controller is in ASSESS_SITUATION.
C2_Witness ==
    /\ dispatched = "ERROR_RECOVERY"
    /\ outcome = "returned"
    /\ current_state = "ASSESS_SITUATION"
    /\ errors_encountered > 0

----------------------------------------------------------------------------
\* Claims about the state classes (checked under Spec).

NoneOrAccepted == current_contract = None \/ current_contract[1].accepted

\* C3 as stated: in every reachable state current_contract is None or a
\* contract with accepted = true.
C3_ContractNoneOrAccepted == NoneOrAccepted

\* C3 amended: current_contract is None or accepted on construction, after
\* every AcceptContractState execution and after every assessment that
\* completes; an unaccepted current_contract only ever arises as the
\* selection NegotiateContractState has just recorded, and otherwise only
\* persists from the state before.
C3_UnacceptedOnlyFromNegotiation ==
    /\ [](call.op \in {"none", "ACCEPT_CONTRACT"} => NoneOrAccepted)
    /\ []((call.op = "ASSESS_SITUATION" /\ call.raised = "none")
            => NoneOrAccepted)
    /\ [][(current_contract' # None /\ ~current_contract'[1].accepted) =>
            \/ current_contract' = current_contract
            \/ /\ call'.op = "NEGOTIATE_CONTRACT"
               /\ call'.selected = current_contract'
               /\ \E i \in 1..Len(call'.available) :
                     call'.available[i] = current_contract'[1]]_vars

\* C3 witness: the negotiator has recorded its selection, which is not
\* accepted, and no acceptance has run yet.
C3_Witness ==
    /\ call.op = "NEGOTIATE_CONTRACT"
    /\ call.selected # None
    /\ current_contract = call.selected
    /\ ~current_contract[1].accepted

\* The instant after which a contract is expired: its expiration when it
\* has one, else its deadline.
ExpiresAt(c) == IF c.expiration # None THEN c.expiration[1].t ELSE c.deadline.t

Qualifies(c) == c.accepted /\ ~c.fulfilled /\ ~(now > ExpiresAt(c))

AllDelivered(c) ==
    \A i \in 1..Len(c.deliveries) :
        c.deliveries[i].units_fulfilled >= c.deliveries[i].units_required

\* An assessment that fetched the agent, the fleet and the contracts.
AssessedAll ==
    /\ call.op = "ASSESS_SITUATION"
    /\ call.raised \in {"none", "is_expired"}

\* C4: after an assessment that fetched a non-empty fleet, if some fetched
\* contract is accepted, not fulfilled and not expired, the first such
\* contract is current_contract and the handler returned COMPLETE_CONTRACT
\* when all its deliveries are fulfilled and EXECUTE_CONTRACT otherwise; if
\* none qualifies, current_contract is None and it returned
\* NEGOTIATE_CONTRACT.
C4_AssessAdoptsFirstActive ==
    (AssessedAll /\ ships # <<>>) =>
        LET qualifying == SelectSeq(call.fetched, Qualifies) IN
        IF qualifying # <<>>
        THEN /\ current_contract = Some(qualifying[1])
             /\ call.ret = IF AllDelivered(qualifying[1])
                           THEN "COMPLETE_CONTRACT" ELSE "EXECUTE_CONTRACT"
        ELSE /\ current_contract = None
             /\ call.ret = "NEGOTIATE_CONTRACT"

\* The contract an assessment ought to adopt has terms without a delivery.
FirstActiveHasNoDelivery ==
    LET qualifying == SelectSeq(call.fetched, Qualifies) IN
    /\ AssessedAll
    /\ ships # <<>>
    /\ qualifying # <<>>
    /\ qualifying[1].deliveries = <<>>

\* C40: after an assessment that fetched a non-empty fleet and whose first
\* accepted, unfulfilled, unexpired contract has an empty delivery list, the
\* deliveries of that contract count as all completed and the assessment
\* returned COMPLETE_CONTRACT.
C40_EmptyTermsReadyToClose ==
    FirstActiveHasNoDelivery =>
        /\ all_deliveries_completed(SelectSeq(call.fetched, Qualifies)[1])
        /\ call.ret = "COMPLETE_CONTRACT"

\* Such an assessment never returned EXECUTE_CONTRACT, and the deliveries
\* always count as completed.
C40_NeverExecute ==
    FirstActiveHasNoDelivery =>
        /\ all_deliveries_completed(SelectSeq(call.fetched, Qualifies)[1])
        /\ call.ret # "EXECUTE_CONTRACT"

\* When no step of the assessment raised, it returned COMPLETE_CONTRACT with
\* that contract as current_contract.
C40_ReadyToCloseUnlessRaised ==
    (FirstActiveHasNoDelivery /\ call.raised = "none") =>
        /\ current_contract = Some(SelectSeq(call.fetched, Qualifies)[1])
        /\ call.ret = "COMPLETE_CONTRACT"

\* An assessment adopted a contract without deliveries that came second in
\* the response, after an expired one, and returned COMPLETE_CONTRACT.
C40_Closed ==
    /\ FirstActiveHasNoDelivery
    /\ call.raised = "none"
    /\ Len(call.fetched) = 2
    /\ call.fetched[2].contract_id = "a6"
    /\ call.ret = "COMPLETE_CONTRACT"

\* C5: whenever the fleet fetched during an assessment is empty, the
\* assessment returns ERROR_RECOVERY, whatever contracts were fetched.
C5_EmptyFleetIsError ==
    (/\ call.op = "ASSESS_SITUATION"
     /\ call.raised \notin {"get_my_agent", "get_my_ships"}
     /\ ships = <<>>)
        => call.ret = "ERROR_RECOVERY"

\* C5 witness: an assessment fetched an empty fleet and a contract with all
\* deliveries made, adopted that contract, and returned ERROR_RECOVERY.
C5_Witness ==
    /\ call.op = "ASSESS_SITUATION"
    /\ call.raised = "none"
    /\ ships = <<>>
    /\ current_contract # None
    /\ AllDelivered(current_contract[1])
    /\ call.ret = "ERROR_RECOVERY"

RECURSIVE SumOf(_, _)
SumOf(f, n) == IF n = 0 THEN 0 ELSE f[n] + SumOf(f, n - 1)

UnitsRequired(c) ==
    SumOf([i \in 1..Len(c.deliveries) |-> c.deliveries[i].units_required],
          Len(c.deliveries))

FleetCapacity == SumOf([i \in 1..Len(ships) |-> ships[i].cargo_capacity], Len(ships))

\* The negotiator got as far as filtering its available contracts.
Filtered ==
    /\ call.op = "NEGOTIATE_CONTRACT"
    /\ call.available # <<>>

Fits(c) ==
    /\ UnitsRequired(c) <= FleetCapacity
    /\ _estimate_contract_cost(c)
          <= agent_data[1].credits - strategy_config.safety_credit_reserve

\* C6: with a non-empty fleet, the contracts that survive the capability
\* filter are exactly the available contracts whose total units_required is
\* at most the total fleet cargo capacity and whose estimated cost is at most
\* credits - safety_reserve, in their order.
C6_FilterKeepsWhatFits ==
    (Filtered /\ ships # <<>>) => call.suitable = SelectSeq(call.available, Fits)

\* C6 witness: the filter kept a contract one of whose deliveries is larger
\* than every ship of the fleet, its total fitting the fleet as a whole.
C6_Witness ==
    /\ Filtered
    /\ ships # <<>>
    /\ \E i \in 1..Len(call.suitable) :
          \A s \in 1..Len(ships) :
              \E d \in 1..Len(call.suitable[i].deliveries) :
                  call.suitable[i].deliveries[d].units_required
                      > ships[s].cargo_capacity

\* The negotiator got as far as scoring the contracts that survived.
Scored ==
    /\ call.op = "NEGOTIATE_CONTRACT"
    /\ call.suitable # <<>>
    /\ call.raised \in {"none", "log_details"}

Positive(score) == score.num > 0

ScoreOf(c) ==
    (CHOOSE p \in {call.scored[i] : i \in 1..Len(call.scored)} :
        p.contract = c).score

\* C7: whenever the negotiator returns ACCEPT_CONTRACT, current_contract
\* was fetched not accepted, not fulfilled and not expired, survived the
\* filter, has a score > 0 and no survivor has a higher score; and having
\* scored the survivors it returns ACCEPT_CONTRACT when one of them has a
\* score > 0 and NEGOTIATE_CONTRACT instead when none has.
C7_AcceptOnlyBestPositive ==
    /\ (call.op = "NEGOTIATE_CONTRACT" /\ call.ret = "ACCEPT_CONTRACT") =>
          /\ current_contract # None
          /\ \E i \in 1..Len(call.fetched) :
                /\ call.fetched[i] = current_contract[1]
                /\ ~call.fetched[i].accepted
                /\ ~call.fetched[i].fulfilled
                /\ ~(now > ExpiresAt(call.fetched[i]))
          /\ \E i \in 1..Len(call.suitable) :
                call.suitable[i] = current_contract[1]
          /\ Positive(ScoreOf(current_contract[1]))
          /\ \A i \in 1..Len(call.scored) :
                RatLeq(call.scored[i].score, ScoreOf(current_contract[1]))
    /\ Scored =>
          IF \E i \in 1..Len(call.scored) : Positive(call.scored[i].score)
          THEN call.ret = "ACCEPT_CONTRACT"
          ELSE call.ret = "NEGOTIATE_CONTRACT"

\* The survivors with the highest score, and the first of them in the
\* fetched list.
TopScored ==
    {p \in {call.scored[i] : i \in 1..Len(call.scored)} :
        \A j \in 1..Len(call.scored) : RatLeq(call.scored[j].score, p.score)}

FirstFetchedTop ==
    LET at == {i \in 1..Len(call.fetched) :
                  \E p \in TopScored : p.contract = call.fetched[i]}
        first == CHOOSE i \in at : \A j \in at : i <= j
    IN call.fetched[first]

\* C8: when the highest score among the surviving contracts is positive,
\* the contract selected (and recorded as current_contract) is, of the
\* survivors with that score, the one that comes first in the fetched list.
C8_FirstOfTiedBestSelected ==
    (Scored /\ \E p \in TopScored : Positive(p.score)) =>
        /\ call.selected = Some(FirstFetchedTop)
        /\ current_contract = call.selected

\* C8 witness: two survivors share the highest, positive score and the one
\* fetched first, which is not the one with the smaller id, is selected.
C8_Witness ==
    /\ Scored
    /\ Cardinality(TopScored) = 2
    /\ \E p \in TopScored : Positive(p.score)
    /\ call.fetched[1].contract_id = "c2"
    /\ call.selected = Some(call.fetched[1])

----------------------------------------------------------------------------
\* Claims about Contract.calculate_profitability_score (checked under
\* SpecScore).

\* The contract of the query, as parsed from its payload.
Queried == Contract_from_api_response(query[1].data, now)

UnitsNeeded(c) ==
    SumOf([i \in 1..Len(c.deliveries) |->
              IF c.deliveries[i].units_required > c.deliveries[i].units_fulfilled
              THEN c.deliveries[i].units_required - c.deliveries[i].units_fulfilled
              ELSE 0],
          Len(c.deliveries))

Payment(c) == c.payment_on_accepted + c.payment_on_fulfilled

\* The query is answered, for a contract that is not expired and whose
\* needed units fit the cargo capacity.
AnsweredInScope ==
    /\ query # None
    /\ query[1].done
    /\ ~(now > ExpiresAt(Queried))
    /\ UnitsNeeded(Queried) <= query[1].cargo_capacity

\* (profit / max(1, units)) * (profit / max(1, payment))
\*     * min(1, seconds_to_deadline / 86400) * 100
ScoreFormula(profit, units, payment, seconds) ==
    RatMul(RatMul(RatMul(Rat(profit, IF units > 1 THEN units ELSE 1),
                         Rat(profit, IF payment > 1 THEN payment ELSE 1)),
                  IF seconds >= 86400 THEN RatInt(1) ELSE Rat(seconds, 86400)),
           RatInt(100))

\* C9: for a non-expired contract whose needed units fit the capacity and
\* whose profit = total_payment - estimated_cost is positive, the score is
\* (profit / max(1, units)) * (profit / max(1, total_payment))
\* * min(1, seconds_to_deadline / 86400) * 100; payments 1000 + 4000, one
\* delivery of 50 units, a deadline days out, capacity 100 and cost 2000 give
\* exactly 3600.
C9_ScoreFormula ==
    /\ (AnsweredInScope /\ Payment(Queried) - query[1].estimated_costs > 0) =>
          /\ ~query[1].raised
          /\ query[1].score =
                ScoreFormula(Payment(Queried) - query[1].estimated_costs,
                             UnitsNeeded(Queried), Payment(Queried),
                             Queried.deadline.t - now)
    /\ (/\ query # None
        /\ query[1].done
        /\ query[1].data = Offers.c4
        /\ query[1].cargo_capacity = 100
        /\ query[1].estimated_costs = 2000) => query[1].score = RatInt(3600)

\* C10: a non-expired, within-capacity contract whose total_payment -
\* estimated_cost is <= 0 scores -100 (payments 1000 + 4000, 50 units and
\* cost 6000 among them).
C10_UnprofitableScoresMinus100 ==
    (AnsweredInScope /\ Payment(Queried) - query[1].estimated_costs <= 0) =>
        /\ ~query[1].raised
        /\ query[1].score = RatInt(-100)

\* C11: of two evaluations of calculate_profitability_score that both return
\* and differ only in the estimated cost, the one with the larger profit
\* (the smaller cost) never gets the smaller score.
C11_ScoreMonotoneInProfit ==
    (/\ query # None
     /\ query[1].done
     /\ query[1].prior # None
     /\ ~query[1].raised
     /\ ~query[1].prior[1].raised
     /\ query[1].estimated_costs < query[1].prior[1].estimated_costs)
        => RatLeq(query[1].prior[1].score, query[1].score)

\* C12: the score is -1000 for every expired contract, and -500 for every
\* non-expired contract whose total required units (the sum of
\* units_required over its deliveries) exceed the cargo capacity.
C12_ExpiredOrOverCapacityNegative ==
    (query # None /\ query[1].done) =>
        /\ (now > ExpiresAt(Queried)) =>
              (~query[1].raised /\ query[1].score = RatInt(-1000))
        /\ (/\ ~(now > ExpiresAt(Queried))
            /\ UnitsRequired(Queried) > query[1].cargo_capacity) =>
              (~query[1].raised /\ query[1].score = RatInt(-500))

----------------------------------------------------------------------------
\* Claims about negotiation without a surviving contract and about
\* AcquireResourcesState (checked under SpecFleet).

Credits == agent_data[1].credits

Spendable == Credits - strategy_config.safety_credit_reserve

\* The negotiator found available contracts and none survived the filter.
NoSurvivor ==
    /\ call.op = "NEGOTIATE_CONTRACT"
    /\ call.raised = "none"
    /\ call.available # <<>>
    /\ call.suitable = <<>>

\* The rejected contracts that the fleet cannot carry (a ship-size rejection
\* is one of them), and those the account cannot pay for.
CapacityRejections ==
    Cardinality({i \in 1..Len(call.available) :
                    UnitsRequired(call.available[i]) > FleetCapacity})

CreditRejections ==
    Cardinality({i \in 1..Len(call.available) :
                    _estimate_contract_cost(call.available[i]) > Spendable})

\* C13: when no contract survives filtering, the negotiator returns
\* ACQUIRE_RESOURCES only if the capacity/ship-size rejections are not
\* outnumbered by the credit-shortage rejections and credits exceed 50000;
\* when credit shortage is the dominant cause, or credits are at most 50000,
\* it returns NEGOTIATE_CONTRACT.
C13_AcquireOnlyWhenCapacityDominates ==
    NoSurvivor =>
        /\ call.ret = "ACQUIRE_RESOURCES" =>
              /\ CapacityRejections > 0
              /\ CapacityRejections >= CreditRejections
              /\ Credits > 50000
        /\ (CreditRejections > CapacityRejections \/ Credits <= 50000) =>
              call.ret = "NEGOTIATE_CONTRACT"

\* C14 as stated: once an AcquireResourcesState call has failed to acquire a
\* ship, for whatever reason, the negotiator does not return
\* ACQUIRE_RESOURCES until more than 3600 seconds have passed since the
\* latest such call.
C14_CooldownAfterFailedAcquire ==
    (/\ call.op = "NEGOTIATE_CONTRACT"
     /\ call.ret = "ACQUIRE_RESOURCES"
     /\ failed_acquire_at.any # None)
        => now - failed_acquire_at.any[1] > 3600

\* C14 as amended: once an AcquireResourcesState call has found no shipyard,
\* or no shipyard with a ship in stock, the negotiator does not return
\* ACQUIRE_RESOURCES until more than 3600 seconds have passed since the
\* latest such call.
C14_CooldownAfterUnstockedAcquire ==
    (/\ call.op = "NEGOTIATE_CONTRACT"
     /\ call.ret = "ACQUIRE_RESOURCES"
     /\ failed_acquire_at.no_stock # None)
        => now - failed_acquire_at.no_stock[1] > 3600

\* C14 witness: an hour after an acquisition that found nothing in stock,
\* with contracts rejected for capacity and credits above the threshold,
\* the negotiator still held back.
C14_Witness ==
    /\ NoSurvivor
    /\ CapacityRejections > 0
    /\ Credits > 50000
    /\ failed_acquire_at.no_stock # None
    /\ now - failed_acquire_at.no_stock[1] = 3600
    /\ call.ret = "NEGOTIATE_CONTRACT"

Acquired == call.op = "ACQUIRE_RESOURCES"

\* C15: when discovery yields no shipyard, or shipyards none of which has a
\* ship in stock, the acquirer sets acquire_failed, records the time of the
\* attempt in last_acquire_attempt, issues no call, sleeps 60 seconds in the
\* first case and 300 in the second, and returns NEGOTIATE_CONTRACT.
C15_NoShipyardOrNoStockMarksFailure ==
    (Acquired /\ call.detail[1].stocked = <<>>) =>
        /\ strategy_config.acquire_failed
        /\ failed_acquire_at.no_stock # None
        /\ strategy_config.last_acquire_attempt = failed_acquire_at.no_stock[1]
        /\ call.issued = <<>>
        /\ call.slept = IF call.detail[1].shipyards = <<>> THEN 60 ELSE 300
        /\ call.ret = "NEGOTIATE_CONTRACT"

\* C15 witness (Scenario D): discovery found no shipyard, the failure is
\* marked and the acquirer slept 60 seconds.
C15_Witness ==
    /\ Acquired
    /\ call.detail[1].shipyards = <<>>
    /\ strategy_config.acquire_failed
    /\ strategy_config.last_acquire_attempt = now
    /\ call.slept = 60

\* The offerings of the first n shipyards, in order.
RECURSIVE Offered(_, _)
Offered(yards, n) ==
    IF n = 0 THEN <<>>
    ELSE Offered(yards, n - 1)
         \o [i \in 1..Len(yards[n].ships) |->
                [ship_info |-> yards[n].ships[i],
                 waypoint_symbol |-> yards[n].waypoint_symbol]]

\* capacity / price of a is at most that of b (prices are positive).
ValueAtMost(a, b) ==
    a.ship_info.capacity * b.ship_info.purchasePrice
        <= b.ship_info.capacity * a.ship_info.purchasePrice

\* The ship the acquirer is to pick among the offerings, for the context
\* the call started from: the first of those of greatest capacity / price
\* among the ones within the budget that have cargo room and enough of it.
\* None when no offering passes.
ShipToPick(offers) ==
    LET needed == Max2(60, FleetCapacity + 20) - FleetCapacity
        passing == {i \in 1..Len(offers) :
                       /\ offers[i].ship_info.purchasePrice <= Spendable
                       /\ offers[i].ship_info.capacity > 0
                       /\ offers[i].ship_info.capacity >= needed}
        top == {i \in passing : \A j \in passing : ValueAtMost(offers[j], offers[i])}
    IN  IF passing = {} THEN None
        ELSE Some(offers[CHOOSE i \in top : \A j \in top : i <= j])

\* C16: among all offerings of all stocked shipyards the acquirer picks the
\* first of those of greatest capacity / price among the offerings with
\* price <= credits - safety_reserve, capacity > 0 and capacity >= the
\* capacity needed, and any purchase or relocation it issues is for that
\* offering's shipyard; when no offering passes it issues no call and
\* returns NEGOTIATE_CONTRACT.  (The offerings are listed with numbers for
\* price and capacity: a listing that is malformed ends the call in the
\* except clause, which is C22's case.)
C16_BestValueOfferingPicked ==
    [][(/\ AcquireResources
        /\ call'.detail[1].stocked # <<>>
        /\ call'.raised = "none") =>
          LET stocked == call'.detail[1].stocked
              pick == ShipToPick(Offered(stocked, Len(stocked)))
          IN  /\ call'.detail[1].best = pick
              /\ pick = None =>
                    (call'.issued = <<>> /\ call'.ret = "NEGOTIATE_CONTRACT")
              /\ \A i \in 1..Len(call'.issued) :
                    /\ call'.issued[i].api \in {"navigate_ship", "purchase_ship"}
                          => call'.issued[i].waypoint = pick[1].waypoint_symbol
                    /\ call'.issued[i].api = "purchase_ship"
                          => call'.issued[i].ship = pick[1].ship_info.type]_vars

\* C16 witness: two shipyards offer ships of equal capacity / price, and the
\* one of the shipyard listed first was picked and bought.
C16_Witness ==
    /\ Acquired
    /\ Len(call.detail[1].stocked) = 2
    /\ call.detail[1].best # None
    /\ call.detail[1].best[1].waypoint_symbol
          = call.detail[1].stocked[1].waypoint_symbol
    /\ \E i \in 1..Len(call.detail[1].stocked[2].ships) :
          LET other == [ship_info |-> call.detail[1].stocked[2].ships[i],
                        waypoint_symbol |-> "X1-HQ-Y9"]
          IN  /\ ValueAtMost(other, call.detail[1].best[1])
              /\ ValueAtMost(call.detail[1].best[1], other)
    /\ \E i \in 1..Len(call.issued) : call.issued[i].api = "purchase_ship"

\* C17 (Scenario E): when the purchase_ship response has no `ship` payload
\* the purchase is reported as failed and the acquirer leaves the fleet and
\* the agent snapshot as they were.
C17_NoShipPayloadIsFailure ==
    [][(/\ AcquireResources
        /\ call'.response # None
        /\ ~call'.response[1].raises
        /\ call'.response[1].has_data
        /\ ~call'.response[1].has_ship) =>
            /\ ~call'.detail[1].success
            /\ ships' = ships
            /\ agent_data' = agent_data]_vars

\* C18: purchase_ship is issued only for an offering whose price is at most
\* the credits of the agent snapshot less the safety reserve, so that the
\* snapshot of an agent charged that price is not below the reserve.
C18_PurchaseKeepsSafetyReserve ==
    [][AcquireResources =>
          \A i \in 1..Len(call'.issued) :
              call'.issued[i].api = "purchase_ship" =>
                  /\ call'.detail[1].best # None
                  /\ call'.detail[1].best[1].ship_info.type = call'.issued[i].ship
                  /\ call'.detail[1].best[1].ship_info.purchasePrice <= Spendable
                  /\ (call'.response[1].has_data /\ call'.response[1].has_agent) =>
                        agent_data'[1].credits
                            >= strategy_config.safety_credit_reserve]_vars

\* C18 witness: a ship was bought for all the credits above the reserve.
C18_Witness ==
    /\ Acquired
    /\ \E i \in 1..Len(call.issued) : call.issued[i].api = "purchase_ship"
    /\ call.response # None
    /\ call.response[1].has_data
    /\ call.response[1].has_agent
    /\ Credits = strategy_config.safety_credit_reserve

----------------------------------------------------------------------------
\* Claims about AcceptContractState (checked under Spec).

\* C19: when current_contract is already accepted, ACCEPT_CONTRACT returns
\* PLAN_FULFILLMENT without issuing accept_contract and without changing the
\* contract or the agent snapshot; and any accept_contract it issues is for
\* a contract that was held as not accepted.
C19_AcceptanceIdempotent ==
    /\ [][(/\ call'.op = "ACCEPT_CONTRACT"
           /\ current_contract # None
           /\ current_contract[1].accepted) =>
              /\ call'.ret = "PLAN_FULFILLMENT"
              /\ call'.issued = <<>>
              /\ current_contract' = current_contract
              /\ agent_data' = agent_data]_vars
    /\ [](call.op = "ACCEPT_CONTRACT" =>
            \A i \in 1..Len(call.issued) :
                (call.issued[i].api = "accept_contract"
                    => ~call.issued[i].accepted))

\* C19 witness: an accepted contract passed through ACCEPT_CONTRACT with no
\* accept_contract call.
C19_Witness ==
    /\ call.op = "ACCEPT_CONTRACT"
    /\ call.ret = "PLAN_FULFILLMENT"
    /\ call.issued = <<>>
    /\ current_contract # None
    /\ current_contract[1].accepted

\* The accept call failed: it raised, its response has no `data` or no
\* `data.contract`, or the contract it returned is not accepted.
AcceptCallFailed ==
    /\ call.op = "ACCEPT_CONTRACT"
    /\ call.response # None
    /\ LET resp == call.response[1] IN
          \/ resp.raises
          \/ ~resp.has_data
          \/ ~resp.has_contract
          \/ ~resp.contract.accepted

\* C20: when the accept call fails, ACCEPT_CONTRACT leaves current_contract
\* None and returns NEGOTIATE_CONTRACT (so neither an exception nor
\* ERROR_RECOVERY comes of it); and whenever it returns PLAN_FULFILLMENT the
\* contract held is accepted.
C20_FailedAcceptFallsBack ==
    /\ AcceptCallFailed =>
          /\ current_contract = None
          /\ call.ret = "NEGOTIATE_CONTRACT"
          /\ call.raised = "none"
    /\ (call.op = "ACCEPT_CONTRACT" /\ call.ret = "PLAN_FULFILLMENT") =>
          /\ current_contract # None
          /\ current_contract[1].accepted

\* C20 witness: the accept call answered with a contract that is still not
\* accepted, and the handler fell back to negotiation.
C20_Witness ==
    /\ AcceptCallFailed
    /\ ~call.response[1].raises
    /\ call.response[1].has_contract
    /\ current_contract = None
    /\ call.ret = "NEGOTIATE_CONTRACT"

----------------------------------------------------------------------------
\* Claims about the purchase and the relocation before it (checked under
\* SpecFleet).

\* The calls of one API method among those the acquirer issued.
IssuedOf(api) ==
    SelectSeq(call.issued, LAMBDA c : c.api = api)

\* The fleet snapshot holds a ship recorded at the waypoint.
OwnedShipAt(waypoint) ==
    \E i \in 1..Len(ships) : ships[i].waypoint_symbol = waypoint

\* C29: purchase_ship is issued only for a waypoint at which the fleet
\* snapshot records an owned ship; when an offering was chosen and no owned
\* ship is recorded at its shipyard, the call issues at most one
\* navigate_ship and no purchase_ship and leaves the fleet and the credits
\* as they were.
C29_PurchaseOnlyWithShipPresent ==
    [][AcquireResources =>
          /\ \A i \in 1..Len(IssuedOf("purchase_ship")') :
                OwnedShipAt(IssuedOf("purchase_ship")'[i].waypoint)
          /\ (/\ call'.detail[1].best # None
              /\ ~OwnedShipAt(call'.detail[1].best[1].waypoint_symbol)) =>
                /\ Len(IssuedOf("navigate_ship")') <= 1
                /\ IssuedOf("purchase_ship")' = <<>>
                /\ ships' = ships
                /\ agent_data' = agent_data]_vars

\* C29 witness: the chosen offering is at a shipyard where no owned ship is
\* recorded; one ship was sent there and nothing was bought.
C29_Witness ==
    /\ call.op = "ACQUIRE_RESOURCES"
    /\ call.detail[1].best # None
    /\ ~OwnedShipAt(call.detail[1].best[1].waypoint_symbol)
    /\ Len(IssuedOf("navigate_ship")) = 1
    /\ IssuedOf("purchase_ship") = <<>>

\* The ships of the fleet snapshot that are not in transit and have fuel, in
\* fleet order.
Qualifying ==
    SelectSeq(ships, LAMBDA ship :
                        ship.status # "IN_TRANSIT" /\ ship.fuel_current > 0)

\* The relocation calls among those the acquirer issued, in order.
Relocation ==
    SelectSeq(call.issued,
              LAMBDA c : c.api \in {"orbit_ship", "navigate_ship"})

\* C30: navigate_ship is issued only for the first ship of the fleet that
\* is not in transit and has fuel > 0; an orbit_ship call for that ship
\* precedes it if and only if the ship is docked; when an offering was
\* chosen at a shipyard without an owned ship and no ship qualifies, neither
\* call is issued and the purchase attempt fails.
C30_RelocationOrdering ==
    [][AcquireResources =>
          /\ Relocation' # <<>> =>
                /\ Qualifying # <<>>
                /\ \A i \in 1..Len(Relocation') :
                      Relocation'[i].ship = Qualifying[1].symbol
                /\ Relocation'[1].api = "orbit_ship"
                      <=> Qualifying[1].status = "DOCKED"
                /\ \A i \in 2..Len(Relocation') :
                      /\ Relocation'[i].api = "navigate_ship"
                      /\ i = 2
                      /\ Relocation'[1].api = "orbit_ship"
          /\ (/\ call'.detail[1].best # None
              /\ ~OwnedShipAt(call'.detail[1].best[1].waypoint_symbol)
              /\ Qualifying = <<>>) =>
                /\ Relocation' = <<>>
                /\ ~call'.detail[1].success
                /\ IssuedOf("purchase_ship")' = <<>>]_vars

\* C30 witness: the first ship of the fleet was under way, so the second,
\* which was in orbit, was sent to the shipyard without an orbit call.
C30_Witness ==
    /\ call.op = "ACQUIRE_RESOURCES"
    /\ Len(ships) = 2
    /\ ships[1].status = "IN_TRANSIT"
    /\ Relocation # <<>>
    /\ Relocation[1] = [api |-> "navigate_ship", ship |-> ships[2].symbol,
                        waypoint |-> "X1-HQ-Y9"]

\* Reached states in which a docked ship was put in orbit and then sent,
\* and in which no ship could be sent.
C30_Docked ==
    /\ Len(Relocation) = 2
    /\ Relocation[1].api = "orbit_ship"
    /\ Relocation[2].api = "navigate_ship"

C30_NoneQualifies ==
    /\ call.op = "ACQUIRE_RESOURCES"
    /\ call.detail[1].best # None
    /\ ~OwnedShipAt(call.detail[1].best[1].waypoint_symbol)
    /\ Qualifying = <<>>
    /\ Relocation = <<>>

\* The fleet snapshot as a purchase leaves it: the ships owned before and
\* the ship of the purchase response, if it sent one.
FleetAfterPurchase ==
    IF /\ call'.response # None
       /\ ~call'.response[1].raises
       /\ call'.response[1].has_data
       /\ call'.response[1].has_ship
    THEN Append(ships, Ship_from_api_response(call'.response[1].ship))
    ELSE ships

\* The ship is docked and its tank holds less than a quarter of its
\* capacity (a tank of capacity 0 counts as empty).
DockedAndLow(ship) ==
    /\ ship.status = "DOCKED"
    /\ \/ ship.fuel_capacity = 0
       \/ 4 * ship.fuel_current < ship.fuel_capacity

\* C31: refuel_ship is issued only on the path that reaches the fleet
\* refresh and only for ships of the snapshot that are docked and below a
\* quarter tank; every refuel_ship precedes the one get_my_ships, which is
\* the last call; whether a refuel or the refresh fails, the handler
\* returns NEGOTIATE_CONTRACT without a sleep and leaves the strategy
\* config alone; after a refresh that succeeded the fleet is the list
\* get_my_ships returned, and after one that failed it is the snapshot.
C31_RefuelThenRefresh ==
    [][AcquireResources =>
          LET calls == call'.issued
              refresh == call'.detail[1].refresh
          IN  /\ IssuedOf("refuel_ship")' # <<>>
                    => IssuedOf("get_my_ships")' # <<>>
              /\ (refresh # None) <=> (IssuedOf("get_my_ships")' # <<>>)
              /\ IssuedOf("get_my_ships")' # <<>> =>
                    /\ Len(IssuedOf("get_my_ships")') = 1
                    /\ calls[Len(calls)].api = "get_my_ships"
                    /\ \A i \in 1..Len(calls) :
                          calls[i].api = "refuel_ship" =>
                              \E j \in 1..Len(FleetAfterPurchase) :
                                  /\ FleetAfterPurchase[j].symbol = calls[i].ship
                                  /\ DockedAndLow(FleetAfterPurchase[j])
                    /\ call'.ret = "NEGOTIATE_CONTRACT"
                    /\ call'.raised = "none"
                    /\ call'.slept = 0
                    /\ strategy_config' = strategy_config
                    /\ ships' = IF refresh[1].raises THEN FleetAfterPurchase
                                ELSE ParseShips(refresh[1].data)]_vars

\* C31 witness: a docked ship with an empty tank was refuelled, the call
\* raised, get_my_ships raised as well, and the handler returned
\* NEGOTIATE_CONTRACT.
C31_Witness ==
    /\ call.op = "ACQUIRE_RESOURCES"
    /\ call.ret = "NEGOTIATE_CONTRACT"
    /\ call.detail[1].refuels_raised # <<>>
    /\ call.detail[1].refresh # None
    /\ call.detail[1].refresh[1].raises

\* A reached state in which the refresh replaced the fleet by a list that
\* differs from the snapshot.
C31_Refreshed ==
    /\ call.op = "ACQUIRE_RESOURCES"
    /\ call.detail[1].refresh # None
    /\ ~call.detail[1].refresh[1].raises
    /\ call.response # None
    /\ ~call.response[1].has_ship
    /\ Len(call.detail[1].refresh[1].data) = 2
    /\ ships = ParseShips(call.detail[1].refresh[1].data)

\* Claims about the acquire_failed marker (checked under SpecFleet).

\* C38: once acquire_failed is set no operation clears it, a later purchase
\* that succeeds included; and while it is set the negotiator returns
\* ACQUIRE_RESOURCES only when more than 3600 seconds have passed since
\* last_acquire_attempt.
C38_AcquireFailedMonotone ==
    /\ [][strategy_config.acquire_failed
             => strategy_config'.acquire_failed]_vars
    /\ [][(/\ NegotiateLargeContracts
           /\ strategy_config.acquire_failed
           /\ call'.ret = "ACQUIRE_RESOURCES")
             => now - strategy_config.last_acquire_attempt > 3600]_vars

\* C38 witness: after a discovery that failed, a ship was bought, and the
\* marker is still set.
C38_Witness ==
    /\ call.op = "ACQUIRE_RESOURCES"
    /\ call.detail[1].success
    /\ IssuedOf("purchase_ship") # <<>>
    /\ strategy_config.acquire_failed

\* A reached state in which the marker was set and the negotiator, more
\* than an hour after the attempt, returned ACQUIRE_RESOURCES again.
C38_AcquireAgain ==
    /\ call.op = "NEGOTIATE_CONTRACT"
    /\ call.ret = "ACQUIRE_RESOURCES"
    /\ strategy_config.acquire_failed
    /\ now - strategy_config.last_acquire_attempt > 3600

\* C39: the fleet of the context never holds more ships than the strategy
\* config's max_ships.
C39_FleetWithinMaxShips ==
    Len(ships) <= strategy_config.max_ships

\* Claims about the need analysis (checked under SpecFleet).

\* C35: whatever the fleet, the need analysis reports need_resources and
\* need_cargo_capacity with min_cargo_needed = max(20, 60 - capacity), and
\* the handler does not take the branch that returns NEGOTIATE_CONTRACT at
\* once: with agent data it goes on to request the waypoints, and without
\* it ends in the no-shipyard branch.
C35_AlwaysNeedsCargo ==
    [][AcquireResources =>
          LET needs == call'.detail[1].needs
              capacity == FleetCapacity
          IN  /\ needs.current_capacity = capacity
              /\ needs.target_capacity > capacity
              /\ needs.need_resources
              /\ needs.need_cargo_capacity
              /\ needs.min_cargo_needed
                    = (IF 60 - capacity > 20 THEN 60 - capacity ELSE 20)
              /\ agent_data # None => call'.detail[1].fetched.requested # <<>>
              /\ ~(/\ call'.ret = "NEGOTIATE_CONTRACT"
                   /\ call'.raised = "none"
                   /\ call'.slept = 0
                   /\ call'.issued = <<>>)]_vars

\* C35 witness: a fleet that holds 600 units, far more than the floor of
\* 60, was found to need 20 more.
C35_Witness ==
    /\ call.op = "ACQUIRE_RESOURCES"
    /\ call.detail[1].needs.current_capacity = 600
    /\ call.detail[1].needs.min_cargo_needed = 20
    /\ call.detail[1].needs.need_cargo_capacity

\* Claims about the enumeration of waypoints (checked under SpecFleet).

\* The waypoints of the system on all the pages the API holds, in order.
RECURSIVE AllWaypoints(_)
AllWaypoints(pages) ==
    IF pages = <<>> THEN <<>>
    ELSE (IF pages[1].raises THEN <<>> ELSE pages[1].data)
         \o AllWaypoints(Tail(pages))

\* Page n of the API's pages is one after which the enumeration stops: it
\* is empty (as every page past the last is), holds fewer than 20 entries,
\* or its number reaches the declared total divided by 20 and rounded up.
LastPage(pages, n) ==
    \/ n > Len(pages)
    \/ Len(pages[n].data) = 0
    \/ Len(pages[n].data) < 20
    \/ n * 20 >= pages[n].total

\* C33: the pages are requested in the order 1, 2, ...; when no request
\* raises, the last page requested is the first that is empty, holds fewer
\* than 20 entries or whose number reaches the declared total over 20
\* rounded up, and the waypoints gathered are all waypoints of the system.
C33_EnumerationComplete ==
    [][(AcquireResources /\ agent_data # None) =>
          LET fetched == call'.detail[1].fetched
              pages == call'.detail[1].pages
              n == Len(fetched.requested)
          IN  /\ n >= 1
              /\ \A i \in 1..n : fetched.requested[i] = i
              /\ \A i \in 1..(n - 1) :
                    ~pages[i].raises /\ ~LastPage(pages, i)
              /\ ~fetched.raises =>
                    /\ LastPage(pages, n)
                    /\ fetched.all_waypoints = AllWaypoints(pages)]_vars

\* C33 witness: a system of 41 waypoints was enumerated in three requests.
C33_Witness ==
    /\ call.op = "ACQUIRE_RESOURCES"
    /\ call.detail[1].fetched.requested = <<1, 2, 3>>
    /\ Len(call.detail[1].fetched.all_waypoints) = 41
    /\ ~call.detail[1].fetched.raises

\* A reached state in which two full pages were all there was and no third
\* page was requested.
C33_TwoFullPages ==
    /\ call.op = "ACQUIRE_RESOURCES"
    /\ call.detail[1].fetched.requested = <<1, 2>>
    /\ Len(call.detail[1].fetched.all_waypoints) = 40

\* The waypoints gathered that have a shipyard whose inventory request
\* was answered, in order.
AnsweringShipyards ==
    SelectSeq(call.detail[1].fetched.all_waypoints,
              LAMBDA w : /\ "SHIPYARD" \in w.traits
                         /\ ~call.detail[1].inventories[w.symbol].raises)

\* C36: a waypoint request that raises is handled as if the system had no
\* shipyard: the waypoints gathered before it are not used, acquire_failed
\* and last_acquire_attempt are set, nothing is issued and the handler
\* returns NEGOTIATE_CONTRACT after sleeping 60 seconds; when no waypoint
\* request raises, the candidates are the shipyards among the waypoints
\* except those whose inventory request raised, each with the inventory
\* the API answered.
C36_DiscoveryFailures ==
    [][(AcquireResources /\ agent_data # None) =>
          LET d == call'.detail[1] IN
          /\ d.fetched.raises =>
                /\ d.shipyards = <<>>
                /\ strategy_config'.acquire_failed
                /\ strategy_config'.last_acquire_attempt = now
                /\ call'.issued = <<>>
                /\ call'.slept = 60
                /\ call'.raised = "none"
                /\ call'.ret = "NEGOTIATE_CONTRACT"
                /\ ships' = ships
          /\ ~d.fetched.raises =>
                /\ Len(d.shipyards) = Len(AnsweringShipyards')
                /\ \A i \in 1..Len(d.shipyards) :
                      /\ d.shipyards[i].waypoint_symbol
                            = AnsweringShipyards'[i].symbol
                      /\ d.shipyards[i].ships
                            = d.inventories[AnsweringShipyards'[i].symbol].ships]_vars

\* C36 witness: the second waypoint request raised after a first page with
\* a shipyard on it; no shipyard was kept and the failure was marked.
C36_Witness ==
    /\ call.op = "ACQUIRE_RESOURCES"
    /\ call.detail[1].fetched.raises
    /\ \E i \in 1..Len(call.detail[1].fetched.all_waypoints) :
          "SHIPYARD" \in call.detail[1].fetched.all_waypoints[i].traits
    /\ call.detail[1].shipyards = <<>>
    /\ strategy_config.acquire_failed
    /\ call.ret = "NEGOTIATE_CONTRACT"

\* A reached state in which one shipyard did not answer and the other was
\* kept as the only candidate.
C36_ShipyardDropped ==
    /\ call.op = "ACQUIRE_RESOURCES"
    /\ Len(call.detail[1].shipyards) = 1
    /\ \E i \in 1..Len(call.detail[1].fetched.all_waypoints) :
          LET w == call.detail[1].fetched.all_waypoints[i] IN
          /\ "SHIPYARD" \in w.traits
          /\ call.detail[1].inventories[w.symbol].raises

\* Claims about failures inside the state classes (checked under SpecStates).

Worthwhile(c) ==
    /\ ~c.accepted /\ ~c.fulfilled /\ ~(now > ExpiresAt(c))
    /\ Fits(c)
    /\ Payment(c) - _estimate_contract_cost(c) > 0

\* A negotiation, by an agent with a fleet, whose get_my_contracts call was
\* answered with well-formed contracts none of which is worthwhile: none is
\* available, or none survives the filter, or none scores above 0.
NegotiationInfeasible ==
    /\ call.op = "NEGOTIATE_CONTRACT"
    /\ call.raised \notin {"get_my_contracts", "from_api_response"}
    /\ agent_data # None
    /\ ships # <<>>
    /\ \A i \in 1..Len(call.fetched) : ~Worthwhile(call.fetched[i])

\* An acquisition that found no shipyard, or none with a ship in stock, or
\* well-formed offerings none of which is to be picked for the context the
\* call started from.
AcquisitionInfeasible ==
    /\ agent_data # None
    /\ call'.op = "ACQUIRE_RESOURCES"
    /\ LET stocked == call'.detail[1].stocked
           offers == Offered(stocked, Len(stocked))
       IN  /\ \A i \in 1..Len(offers) :
                  ~("garbled" \in DOMAIN offers[i].ship_info)
           /\ ShipToPick(offers) = None

\* C23: when nothing can be done for business reasons (no available
\* contract, no contract surviving the filter, no survivor with a positive
\* score; no shipyard, none stocked, no suitable offering) the handler
\* returns NEGOTIATE_CONTRACT or ACQUIRE_RESOURCES, never ERROR_RECOVERY, and
\* leaves the controller's error counter as it was.
C23_InfeasibleIsNotAnError ==
    [][((NegotiateContract /\ NegotiationInfeasible')
        \/ (AcquireResources /\ AcquisitionInfeasible)) =>
          /\ call'.ret \in {"NEGOTIATE_CONTRACT", "ACQUIRE_RESOURCES"}
          /\ errors_encountered' = errors_encountered]_vars

\* The API lists the contract `id` as not fulfilled during the call.
ListedUnfulfilled(id) ==
    \E i \in 1..Len(call.fetched) :
        call.fetched[i].contract_id = id /\ ~call.fetched[i].fulfilled

PastDeadline(data) == data.deadline # None /\ now > data.deadline[1].t

\* C27: Contract.status is FULFILLED if the fulfilled flag is set, else
\* ACCEPTED if the accepted flag is set, else FAILED if the deadline is
\* past, else AVAILABLE, whatever the flags, the deadline and the expiration.
C27_StatusByFlagsThenDeadline ==
    (query # None /\ query[1].status_read) =>
        /\ ~query[1].status_raised
        /\ query[1].status =
              IF query[1].data.fulfilled THEN "FULFILLED"
              ELSE IF query[1].data.accepted THEN "ACCEPTED"
              ELSE IF PastDeadline(query[1].data) THEN "FAILED"
              ELSE "AVAILABLE"

\* C28: for a delivery of any units required and fulfilled, over-delivery
\* included, remaining_units = max(0, units_required - units_fulfilled), and
\* is_completed holds exactly when remaining_units = 0.
C28_RemainingUnitsAndCompletion ==
    (query # None /\ query[1].delivery_read) =>
        LET required == query[1].data.deliver[1].unitsRequired
            delivered == query[1].data.deliver[1].unitsFulfilled
        IN  /\ query[1].remaining_units =
                  (IF required - delivered > 0 THEN required - delivered ELSE 0)
            /\ query[1].is_completed <=> (query[1].remaining_units = 0)

\* C28 witness: more units were delivered than required; the delivery reads
\* as completed with nothing remaining.
C28_Witness ==
    /\ query # None
    /\ query[1].delivery_read
    /\ query[1].data.deliver[1].unitsFulfilled
          > query[1].data.deliver[1].unitsRequired
    /\ query[1].is_completed
    /\ query[1].remaining_units = 0

C34_NegotiateFrame ==
    [][(NegotiateContract /\ call'.ret # "ACCEPT_CONTRACT") =>
          /\ current_contract' = current_contract
          /\ ships' = ships
          /\ agent_data' = agent_data
          /\ strategy_config' = strategy_config]_vars

\* The frame does hold of the calls that return NEGOTIATE_CONTRACT or
\* ACQUIRE_RESOURCES.
C34_FrameOfSelfLoopAndAcquire ==
    [][(NegotiateContract
        /\ call'.ret \in {"NEGOTIATE_CONTRACT", "ACQUIRE_RESOURCES"}) =>
          /\ current_contract' = current_contract
          /\ ships' = ships
          /\ agent_data' = agent_data
          /\ strategy_config' = strategy_config]_vars

\* C37: a failure that execute() of a state class catches is turned into
\* the return of ERROR_RECOVERY and leaves errors_encountered as it was.
\* (Every step is a call of one of the four state classes, and call' is the
\* record of that call.)
C37_CaughtFailuresNotCounted ==
    [][(/\ call'.op \in {"ASSESS_SITUATION", "NEGOTIATE_CONTRACT",
                         "ACCEPT_CONTRACT", "ACQUIRE_RESOURCES"}
        /\ call'.raised # "none") =>
          /\ call'.ret = "ERROR_RECOVERY"
          /\ errors_encountered' = errors_encountered]_vars

\* C37 witness: calls of state classes have returned ERROR_RECOVERY, the
\* last after a failure of get_my_contracts, and the counter is still 0.
C37_Witness ==
    /\ call.op = "NEGOTIATE_CONTRACT"
    /\ call.raised = "get_my_contracts"
    /\ call.ret = "ERROR_RECOVERY"
    /\ errors_encountered = 0

\* In run() the counter changes only in the except clause that an exception
\* escaping a handler reaches, and then by one (checked under SpecCtl).
C37_CountedOnlyInExcept ==
    [][errors_encountered' # errors_encountered =>
          /\ pc = "handler"
          /\ outcome' = "raised"
          /\ current_state' = "ERROR_RECOVERY"
          /\ errors_encountered' = errors_encountered + 1]_vars

\* Claims about shutdown and the shape of the controller (checked under
\* SpecCtl).

\* C21: a shutdown request is observed only at the top of the loop: a handler
\* that was dispatched runs to completion and its transition is applied
\* before run() exits, so run() never exits from the middle of a handler.
C21_ShutdownOnlyAtLoopTop ==
    [][pc = "handler" => (pc' # "done" /\ outcome' # "interrupted")]_vars

\* C25: there is no terminal state.  Each of the eleven states has a handler
\* in the dispatch table and each handler yields a state; the state the
\* controller is in always has a handler; and while no shutdown has been
\* requested run() has not ended and its next step (the loop test, the
\* return of the dispatched handler, the end of the pause) can be taken.
\* (MaxCompleted caps the count of completed contracts in the model: the
\* return of state_complete_contract is looked at below the cap.)
C25_NoTerminalState ==
    /\ DOMAIN state_handlers = AgentState
    /\ Cardinality(AgentState) = 11
    /\ \A s \in AgentState : execute_current_state(s) \in AgentState
    /\ current_state \in DOMAIN state_handlers
    /\ running =>
          /\ pc # "done"
          /\ CompletedAfter(current_state, contracts_completed) <= MaxCompleted
                => ENABLED (LoopTop \/ HandlerReturn \/ Pause)

\* C25 witness: the last handler of the cycle, state_evaluate_performance,
\* has returned after a completed contract and the controller, still
\* running, is back in ASSESS_SITUATION.
C25_Witness ==
    /\ running
    /\ dispatched = "EVALUATE_PERFORMANCE"
    /\ current_state = "ASSESS_SITUATION"
    /\ contracts_completed > 0
    /\ pc = "top"

\* C32: every iteration of the loop, one whose handler failed included, ends
\* with the pause: when the dispatched handler has returned or raised, the
\* pause is what run() does next, so no handler is dispatched after another
\* without a pause between them.
C32_PauseEndsEveryIteration ==
    [][(HandlerReturn \/ HandlerRaise) => pc' = "pause"]_vars

\* The iterations whose handler returned do end with the pause.
C32_ReturnedIterationPauses ==
    [][HandlerReturn => pc' = "pause"]_vars

====
